---- MODULE Spec2Model ----
(***************************************************************************)
(* Response-ingestion layer of the wire-verification dashboard:            *)
(*   src/src/lib/event-parser.ts  (SSE event parser, robust JSON parser)   *)
(*   src/unnamed/part_002         (normalizeResponse, callAIAgent)         *)
(*                                                                         *)
(* Text is a sequence of characters; a character is a one-character        *)
(* string, or a symbolic name for a code point TLA+ cannot spell.          *)
(* A JavaScript value is a tagged record:                                  *)
(*   [t |-> "undef"]  [t |-> "null"]  [t |-> "bool", v |-> BOOLEAN]        *)
(*   [t |-> "num", m |-> Int, e |-> Int]      the number m * 10^e          *)
(*   [t |-> "str", v |-> text]                                             *)
(*   [t |-> "arr", v |-> sequence of values]                               *)
(*   [t |-> "obj", v |-> function from keys (texts) to values]             *)
(***************************************************************************)
EXTENDS Integers, Sequences, FiniteSets, TLC

\* op, arg, ret: the exported function called, its argument, what it gave back
\* stream: one run of parseSSEStream, its loop variables line by line
\* agent: one run of callAIAgent, from the call to the settled promise
\* home: the state of the Home page and of its run of handleProcess
\* test: one run of testAgentWithProgress, chunk by chunk
VARIABLES op, arg, ret, stream, agent, home, test

vars == <<op, arg, ret, stream, agent, home, test>>

-----------------------------------------------------------------------------
(* Characters *)

Q == "\""
BS == "\\"
BOM == "\\uFEFF"
CTL == "\\x01"
BSP == "\\x08"
TICK == "\\x60"

\* ECMAScript WhiteSpace and LineTerminator code points, as String.prototype.trim
\* and the regular-expression class \s see them (those of the modelled alphabet).
JsWhite == {" ", "\t", "\n", "\r", "\f", BOM}

\* JSON insignificant whitespace (ECMA-404).
JsonWS == {" ", "\t", "\n", "\r"}

\* Code points below U+0020: not allowed unescaped inside a JSON string.
Below20 == {"\t", "\n", "\r", "\f", CTL, BSP}

\* Regular-expression line terminators: what "." does not match.
LineTerm == {"\n", "\r"}

Digit == {"0", "1", "2", "3", "4", "5", "6", "7", "8", "9"}

HexDigit == Digit \cup {"a", "b", "c", "d", "e", "f", "A", "B", "C", "D", "E", "F"}

DigitVal(c) ==
  CASE c = "0" -> 0 [] c = "1" -> 1 [] c = "2" -> 2 [] c = "3" -> 3 [] c = "4" -> 4
    [] c = "5" -> 5 [] c = "6" -> 6 [] c = "7" -> 7 [] c = "8" -> 8 [] c = "9" -> 9

DigitChar(d) ==
  CASE d = 0 -> "0" [] d = 1 -> "1" [] d = 2 -> "2" [] d = 3 -> "3" [] d = 4 -> "4"
    [] d = 5 -> "5" [] d = 6 -> "6" [] d = 7 -> "7" [] d = 8 -> "8" [] d = 9 -> "9"

-----------------------------------------------------------------------------
(* JavaScript values *)

Undef == [t |-> "undef"]
Null == [t |-> "null"]
Bool(b) == [t |-> "bool", v |-> b]
Str(s) == [t |-> "str", v |-> s]
Arr(a) == [t |-> "arr", v |-> a]
Obj(f) == [t |-> "obj", v |-> f]

RECURSIVE NormNum(_, _)
NormNum(m, e) ==
  IF m = 0 THEN [t |-> "num", m |-> 0, e |-> 0]
  ELSE IF m % 10 = 0 THEN NormNum(m \div 10, e + 1)
  ELSE [t |-> "num", m |-> m, e |-> e]

Num(n) == NormNum(n, 0)

EmptyObj == Obj(<<>>)

\* ToBoolean: undefined, null, false, 0 and "" are falsy.
Truthy(x) ==
  CASE x.t = "undef" -> FALSE
    [] x.t = "null" -> FALSE
    [] x.t = "bool" -> x.v
    [] x.t = "num" -> x.m # 0
    [] x.t = "str" -> x.v # <<>>
    [] OTHER -> TRUE

\* typeof x is object (null and arrays included).
TypeofObject(x) == x.t \in {"null", "arr", "obj"}

\* key in x, for x an object or an array (no index or length key is modelled).
HasKey(x, k) == x.t = "obj" /\ k \in DOMAIN x.v

\* x[k]: undefined when the key is missing.
Get(x, k) == IF HasKey(x, k) THEN x.v[k] ELSE Undef

\* x || y
OrElse(x, y) == IF Truthy(x) THEN x ELSE y

-----------------------------------------------------------------------------
(* Text helpers *)

Sub(s, a, b) == IF a > b THEN <<>> ELSE SubSeq(s, a, b)

RECURSIVE TrimLeft(_)
TrimLeft(s) == IF s # <<>> /\ Head(s) \in JsWhite THEN TrimLeft(Tail(s)) ELSE s

RECURSIVE TrimRight(_)
TrimRight(s) ==
  IF s # <<>> /\ s[Len(s)] \in JsWhite THEN TrimRight(Sub(s, 1, Len(s) - 1)) ELSE s

\* String.prototype.trim
Trim(s) == TrimRight(TrimLeft(s))

\* s.startsWith(p, from i)
StartsAt(s, i, p) == i + Len(p) - 1 <= Len(s) /\ Sub(s, i, i + Len(p) - 1) = p

\* s.indexOf(p, i), 0 when there is none
RECURSIVE IndexFrom(_, _, _)
IndexFrom(s, p, i) ==
  IF i + Len(p) - 1 > Len(s) THEN 0
  ELSE IF StartsAt(s, i, p) THEN i
  ELSE IndexFrom(s, p, i + 1)

\* the end of the run of characters of class cls that starts at i
RECURSIVE SkipClass(_, _, _)
SkipClass(s, i, cls) ==
  IF i <= Len(s) /\ s[i] \in cls THEN SkipClass(s, i + 1, cls) ELSE i

-----------------------------------------------------------------------------
(* JSON.parse (ECMA-404 grammar), as the engine evaluates it: a value or a *)
(* SyntaxError.  Failure is [ok |-> FALSE].                                *)

Fail == [ok |-> FALSE]

RECURSIVE DigitsVal(_, _, _, _)
DigitsVal(s, a, b, acc) ==
  IF a > b THEN acc ELSE DigitsVal(s, a + 1, b, acc * 10 + DigitVal(s[a]))

RECURSIVE Pow10(_)
Pow10(n) == IF n = 0 THEN 1 ELSE 10 * Pow10(n - 1)

Parsed(val, next) == [ok |-> TRUE, val |-> val, next |-> next]

\* the number read: digits s[a..b-1], fraction digits s[b+1..c-1] (none when
\* c = b), decimal exponent ex, the text ending before next
NumberValue(s, i, a, b, c, ex, next) ==
  Parsed(NormNum((IF s[i] = "-" THEN 0 - 1 ELSE 1)
                   * (DigitsVal(s, a, b - 1, 0) * Pow10(IF c > b THEN c - b - 1 ELSE 0)
                        + DigitsVal(s, b + 1, c - 1, 0)),
                 ex - (IF c > b THEN c - b - 1 ELSE 0)),
         next)

\* exp digits s[d..f-1] after e, E, e+, E+, e-, E-
NumberExpDigits(s, i, a, b, c, d, f) ==
  IF f > d
    THEN NumberValue(s, i, a, b, c,
                     (IF s[d - 1] = "-" THEN 0 - 1 ELSE 1) * DigitsVal(s, d, f - 1, 0), f)
    ELSE Fail

NumberExp(s, i, a, b, c) ==
  IF c <= Len(s) /\ s[c] \in {"e", "E"}
    THEN IF c + 1 <= Len(s) /\ s[c + 1] \in {"+", "-"}
           THEN NumberExpDigits(s, i, a, b, c, c + 2, SkipClass(s, c + 2, Digit))
           ELSE NumberExpDigits(s, i, a, b, c, c + 1, SkipClass(s, c + 1, Digit))
    ELSE NumberValue(s, i, a, b, c, 0, c)

NumberFracDigits(s, i, a, b, c) == IF c > b + 1 THEN NumberExp(s, i, a, b, c) ELSE Fail

\* int = 0 | [1-9][0-9]*, then an optional frac
NumberFrac(s, i, a, b) ==
  IF ~(b > a /\ (s[a] = "0" => b = a + 1)) THEN Fail
  ELSE IF b <= Len(s) /\ s[b] = "."
    THEN NumberFracDigits(s, i, a, b, SkipClass(s, b + 1, Digit))
  ELSE NumberExp(s, i, a, b, b)

NumberInt(s, i, a) == NumberFrac(s, i, a, SkipClass(s, a, Digit))

\* number = [-] int [frac] [exp]
ParseNumber(s, i) == NumberInt(s, i, IF s[i] = "-" THEN i + 1 ELSE i)

Unescape(c) ==
  CASE c = "b" -> BSP [] c = "f" -> "\f" [] c = "n" -> "\n" [] c = "r" -> "\r"
    [] c = "t" -> "\t" [] OTHER -> c

\* \uXXXX: the code point, by name when the alphabet has one
UnicodeEscape(h) ==
  IF h = <<"0", "0", "0", "1">> THEN CTL
  ELSE IF h \in {<<"f", "e", "f", "f">>, <<"F", "E", "F", "F">>} THEN BOM
  ELSE "\\u" \o h[1] \o h[2] \o h[3] \o h[4]

\* the characters of a string literal, from just after its opening quote
RECURSIVE ParseStringBody(_, _, _)
ParseStringBody(s, j, acc) ==
  IF j > Len(s) THEN Fail
  ELSE IF s[j] = Q THEN Parsed(acc, j + 1)
  ELSE IF s[j] = BS THEN
    IF j + 1 > Len(s) THEN Fail
    ELSE IF s[j + 1] \in {Q, BS, "/", "b", "f", "n", "r", "t"}
      THEN ParseStringBody(s, j + 2, Append(acc, Unescape(s[j + 1])))
    ELSE IF s[j + 1] = "u" /\ j + 5 <= Len(s)
              /\ \A k \in (j + 2)..(j + 5) : s[k] \in HexDigit
      THEN ParseStringBody(s, j + 6, Append(acc, UnicodeEscape(Sub(s, j + 2, j + 5))))
    ELSE Fail
  ELSE IF s[j] \in Below20 THEN Fail
  ELSE ParseStringBody(s, j + 1, Append(acc, s[j]))

RECURSIVE ParseValue(_, _)
RECURSIVE ParseElements(_, _, _)
RECURSIVE ParseMembers(_, _, _)

\* after an element, at j: "]" ends the array, "," goes on
ElementSep(s, acc, j) ==
  IF j > Len(s) THEN Fail
  ELSE IF s[j] = "]" THEN Parsed(Arr(acc), j + 1)
  ELSE IF s[j] = "," THEN ParseElements(s, j + 1, acc)
  ELSE Fail

AfterElement(s, acc, r) ==
  IF r.ok THEN ElementSep(s, Append(acc, r.val), SkipClass(s, r.next, JsonWS)) ELSE Fail

\* elements of an array, after "[" or ","
ParseElements(s, i, acc) == AfterElement(s, acc, ParseValue(s, i))

\* after a member, at j: "}" ends the object, "," goes on
MemberSep(s, acc, j) ==
  IF j > Len(s) THEN Fail
  ELSE IF s[j] = "}" THEN Parsed(Obj(acc), j + 1)
  ELSE IF s[j] = "," THEN ParseMembers(s, j + 1, acc)
  ELSE Fail

\* a later duplicate key overwrites
AfterMember(s, acc, key, r) ==
  IF r.ok THEN MemberSep(s, (key :> r.val) @@ acc, SkipClass(s, r.next, JsonWS)) ELSE Fail

MemberValue(s, acc, key, c) ==
  IF c <= Len(s) /\ s[c] = ":" THEN AfterMember(s, acc, key, ParseValue(s, c + 1)) ELSE Fail

MemberColon(s, acc, key) ==
  IF key.ok THEN MemberValue(s, acc, key.val, SkipClass(s, key.next, JsonWS)) ELSE Fail

MemberKey(s, acc, k) ==
  IF k <= Len(s) /\ s[k] = Q THEN MemberColon(s, acc, ParseStringBody(s, k + 1, <<>>)) ELSE Fail

\* members of an object, after "{" or ","
ParseMembers(s, i, acc) == MemberKey(s, acc, SkipClass(s, i, JsonWS))

StringValue(r) == IF r.ok THEN Parsed(Str(r.val), r.next) ELSE Fail

\* after "{" (or "["), at j: the closer at once is the empty object (array)
ObjectAt(s, i, j) ==
  IF j <= Len(s) /\ s[j] = "}" THEN Parsed(EmptyObj, j + 1) ELSE ParseMembers(s, i + 1, <<>>)

ArrayAt(s, i, j) ==
  IF j <= Len(s) /\ s[j] = "]" THEN Parsed(Arr(<<>>), j + 1) ELSE ParseElements(s, i + 1, <<>>)

\* the value that starts at i, whitespace skipped
ValueAt(s, i) ==
  IF i > Len(s) THEN Fail
  ELSE IF s[i] = "{" THEN ObjectAt(s, i, SkipClass(s, i + 1, JsonWS))
  ELSE IF s[i] = "[" THEN ArrayAt(s, i, SkipClass(s, i + 1, JsonWS))
  ELSE IF s[i] = Q THEN StringValue(ParseStringBody(s, i + 1, <<>>))
  ELSE IF StartsAt(s, i, <<"t", "r", "u", "e">>) THEN Parsed(Bool(TRUE), i + 4)
  ELSE IF StartsAt(s, i, <<"f", "a", "l", "s", "e">>) THEN Parsed(Bool(FALSE), i + 5)
  ELSE IF StartsAt(s, i, <<"n", "u", "l", "l">>) THEN Parsed(Null, i + 4)
  ELSE ParseNumber(s, i)

ParseValue(s, i) == ValueAt(s, SkipClass(s, i, JsonWS))

WholeText(s, r) ==
  IF r.ok /\ SkipClass(s, r.next, JsonWS) = Len(s) + 1 THEN [ok |-> TRUE, val |-> r.val] ELSE Fail

\* JSON.parse(text): the whole text must be one value between whitespace
JSONParse(s) == WholeText(s, ParseValue(s, 1))

-----------------------------------------------------------------------------
(* String(x) and the fixed texts of the program *)

\* A fixed message of the program, kept as a text of one symbol: the code never
\* looks inside it.
Lit(name) == <<name>>

RECURSIVE NatDigits(_)
NatDigits(n) == IF n < 10 THEN <<DigitChar(n)>> ELSE Append(NatDigits(n \div 10), DigitChar(n % 10))

RECURSIVE Zeros(_)
Zeros(n) == IF n <= 0 THEN <<>> ELSE <<"0">> \o Zeros(n - 1)

\* the decimal digits d of |m| with the point put k places from the right
PointAt(d, k) ==
  IF k <= 0 THEN d \o Zeros(0 - k)
  ELSE IF Len(d) > k THEN Sub(d, 1, Len(d) - k) \o <<".">> \o Sub(d, Len(d) - k + 1, Len(d))
  ELSE <<"0", ".">> \o Zeros(k - Len(d)) \o d

\* Number::toString for m * 10^e (magnitudes that print without an exponent)
NumToString(x) ==
  IF x.m < 0 THEN <<"-">> \o PointAt(NatDigits(0 - x.m), 0 - x.e)
  ELSE PointAt(NatDigits(x.m), 0 - x.e)

RECURSIVE StringOf(_)
RECURSIVE JoinToString(_, _)

\* Array.prototype.join(','): null and undefined elements print as nothing
JoinToString(a, i) ==
  IF i > Len(a) THEN <<>>
  ELSE (IF i > 1 THEN <<",">> ELSE <<>>)
         \o (IF a[i].t \in {"null", "undef"} THEN <<>> ELSE StringOf(a[i]))
         \o JoinToString(a, i + 1)

\* String(x)
StringOf(x) ==
  CASE x.t = "undef" -> <<"u", "n", "d", "e", "f", "i", "n", "e", "d">>
    [] x.t = "null" -> <<"n", "u", "l", "l">>
    [] x.t = "bool" -> IF x.v THEN <<"t", "r", "u", "e">> ELSE <<"f", "a", "l", "s", "e">>
    [] x.t = "num" -> NumToString(x)
    [] x.t = "str" -> x.v
    [] x.t = "arr" -> JoinToString(x.v, 1)
    [] x.t = "obj" -> Lit("[object Object]")

-----------------------------------------------------------------------------
(* src/src/lib/event-parser.ts: the robust JSON parser *)

\* cleaned.replace(/,(\s*[}\]])/g, '$1')
RECURSIVE StripTrailingCommas(_, _)

\* Mutant: only a comma right before the closer is removed.
CommaAt_NoWhitespace(s, i, j) ==
  IF j = i + 1 /\ j <= Len(s) /\ s[j] \in {"}", "]"}
    THEN <<s[j]>> \o StripTrailingCommas(s, j + 1)
    ELSE <<s[i]>> \o StripTrailingCommas(s, i + 1)

\* a comma at i, the whitespace after it ending at j
CommaAt(s, i, j) ==
  IF j <= Len(s) /\ s[j] \in {"}", "]"}
    THEN Sub(s, i + 1, j) \o StripTrailingCommas(s, j + 1)
    ELSE <<s[i]>> \o StripTrailingCommas(s, i + 1)

StripTrailingCommas(s, i) ==
  IF i > Len(s) THEN <<>>
  ELSE IF s[i] = "," THEN CommaAt(s, i, SkipClass(s, i + 1, JsWhite))
  ELSE <<s[i]>> \o StripTrailingCommas(s, i + 1)

\* cleaned.replace(/[\x00-\x08\x0B\x0C\x0E-\x1F]/g, '')
StripControl(s) == SelectSeq(s, LAMBDA c : c \notin {CTL, BSP, "\f"})

\* cleaned.replace(/(?<!\\)\\n/g, '\\n'): a backslash and an n, not after a
\* backslash, replaced by a backslash and an n
RECURSIVE FixEscapedNewlines(_, _)
FixEscapedNewlines(s, i) ==
  IF i > Len(s) THEN <<>>
  ELSE IF s[i] = BS /\ i + 1 <= Len(s) /\ s[i + 1] = "n" /\ ~(i > 1 /\ s[i - 1] = BS)
    THEN <<BS, "n">> \o FixEscapedNewlines(s, i + 2)
  ELSE <<s[i]>> \o FixEscapedNewlines(s, i + 1)

\* cleaned.replace(/^\uFEFF/, '')
StripBOM(s) == IF s # <<>> /\ Head(s) = BOM THEN Tail(s) ELSE s

cleanJsonString(input) ==
  StripBOM(FixEscapedNewlines(StripControl(StripTrailingCommas(Trim(input), 1)), 1))

NoText == [found |-> FALSE]

Fence == <<TICK, TICK, TICK>>

\* the block opened by the fence at i, its content starting at q (after the
\* optional "json" and the whitespace) and closed by the fence at c
FencedText(s, i, q, c) ==
  IF i > 0 /\ c > 0 THEN [found |-> TRUE, text |-> Trim(Sub(s, q, c - 1))] ELSE NoText

FenceBody(s, i, q) == FencedText(s, i, q, IndexFrom(s, Fence, q))

FenceOpen(s, i) ==
  IF StartsAt(s, i + 3, <<"j", "s", "o", "n">>)
    THEN FenceBody(s, i, SkipClass(s, i + 7, JsWhite))
    ELSE FenceBody(s, i, SkipClass(s, i + 3, JsWhite))

\* input.match(/```(?:json)?\s*([\s\S]*?)```/): group 1, trimmed
CodeBlock(s) == FenceOpen(s, IndexFrom(s, Fence, 1))

\* input.match(/\{[\s\S]*\}/) or /\[[\s\S]*\]/: an opener with a closer after it
CloserAfter(s, c, a) == a > 0 /\ IndexFrom(s, <<c>>, a + 1) > 0

HasSpan(s, o, c) == CloserAfter(s, c, IndexFrom(s, <<o>>, 1))

\* the depth-counting loop; start and end are the loop's variables (1-based:
\* start 0 is the code's -1, end is the index of the closer, 0 the code's -1)
RECURSIVE BalancedScan(_, _, _, _, _, _)
BalancedScan(s, i, depth, start, o, c) ==
  IF i > Len(s) THEN [start |-> start, end |-> 0]
  ELSE IF s[i] = o
    THEN BalancedScan(s, i + 1, depth + 1, IF depth = 0 THEN i ELSE start, o, c)
  ELSE IF s[i] = c
    THEN IF depth - 1 = 0 THEN [start |-> start, end |-> i]
         ELSE BalancedScan(s, i + 1, depth - 1, start, o, c)
  ELSE BalancedScan(s, i + 1, depth, start, o, c)

\* "if (start !== -1 && end !== -1) return str.substring(start, end)"
ScanResult(s, r) ==
  IF r.start # 0 /\ r.end # 0 THEN [found |-> TRUE, text |-> Sub(s, r.start, r.end)] ELSE NoText

\* one of the two "if (xMatch) { scan ... }"
SpanOf(s, o, c) ==
  IF HasSpan(s, o, c) THEN ScanResult(s, BalancedScan(s, 1, 0, 0, o, c)) ELSE NoText

\* Mutant: the bracket scan comes before the brace scan.
AfterObjectScan_ArrayFirst(input, span) ==
  IF SpanOf(input, "[", "]").found THEN SpanOf(input, "[", "]") ELSE span

AfterObjectScan(input, span) == IF span.found THEN span ELSE SpanOf(input, "[", "]")

AfterCodeBlock(input, block) ==
  IF block.found THEN block ELSE AfterObjectScan(input, SpanOf(input, "{", "}"))

extractJsonFromText(input) == AfterCodeBlock(input, CodeBlock(input))

\* "(?:[^"\\]|\\.)*" from just after the opening quote: the index after the
\* closing quote, 0 when the alternative fails
RECURSIVE QuotedEnd(_, _)
QuotedEnd(s, j) ==
  IF j > Len(s) THEN 0
  ELSE IF s[j] = Q THEN j + 1
  ELSE IF s[j] = BS
    THEN IF j + 1 <= Len(s) /\ s[j + 1] \notin LineTerm THEN QuotedEnd(s, j + 2) ELSE 0
  ELSE QuotedEnd(s, j + 1)

\* \d+(?:\.\d+)? with the digits ending at e and the fraction's at f
NumberEnd(s, e, f) == IF e <= Len(s) /\ s[e] = "." /\ f > e + 1 THEN f ELSE e

DigitsEnd(s, e) == NumberEnd(s, e, SkipClass(s, e + 1, Digit))

\* \[[\s\S]*?\] and \{[\s\S]*?\}: up to the first closer, at z
LazyEnd(z) == IF z > 0 THEN z + 1 ELSE 0

\* the value alternatives of kvPattern at b, in the pattern's order: the index
\* after the match, 0 when none matches
ValueEnd(s, b) ==
  IF b > Len(s) THEN 0
  ELSE IF s[b] = Q THEN QuotedEnd(s, b + 1)
  ELSE IF StartsAt(s, b, <<"t", "r", "u", "e">>) THEN b + 4
  ELSE IF StartsAt(s, b, <<"f", "a", "l", "s", "e">>) THEN b + 5
  ELSE IF StartsAt(s, b, <<"n", "u", "l", "l">>) THEN b + 4
  ELSE IF s[b] \in Digit THEN DigitsEnd(s, SkipClass(s, b, Digit))
  ELSE IF s[b] = "[" THEN LazyEnd(IndexFrom(s, <<"]">>, b + 1))
  ELSE IF s[b] = "{" THEN LazyEnd(IndexFrom(s, <<"}">>, b + 1))
  ELSE 0

\* group 2 is s[b..z-1]
KVValue(s, i, kq, b, z) ==
  IF z > 0
    THEN [ok |-> TRUE, key |-> Sub(s, i + 1, kq - 1), value |-> Sub(s, b, z - 1), next |-> z]
    ELSE Fail

KVAfterColon(s, i, kq, b) == KVValue(s, i, kq, b, ValueEnd(s, b))

\* \s*:\s* with the colon expected at a
KVColon(s, i, kq, a) ==
  IF a <= Len(s) /\ s[a] = ":" THEN KVAfterColon(s, i, kq, SkipClass(s, a + 1, JsWhite)) ELSE Fail

\* "([^"]+)": the key ends at the next quote, kq, and is not empty
KVKey(s, i, kq) == IF kq > i + 1 THEN KVColon(s, i, kq, SkipClass(s, kq + 1, JsWhite)) ELSE Fail

\* kvPattern tried at position i: "([^"]+)"\s*:\s*(value)
MatchKV(s, i) == IF s[i] = Q THEN KVKey(s, i, IndexFrom(s, <<Q>>, i + 1)) ELSE Fail

\* valueStr.replace(/^"|"$/g, '')
StripLastQuote(a) == IF a # <<>> /\ a[Len(a)] = Q THEN Sub(a, 1, Len(a) - 1) ELSE a

StripQuotes(s) == StripLastQuote(IF s # <<>> /\ Head(s) = Q THEN Tail(s) ELSE s)

ProtoKey == <<"_", "_", "p", "r", "o", "t", "o", "_", "_">>

\* result[key] = value on a plain object: the key __proto__ is the prototype
\* accessor and makes no own property
SetKey(f, key, value) == IF key = ProtoKey THEN f ELSE (key :> value) @@ f

\* try { JSON.parse(valueStr) } catch { valueStr.replace(...) }
RecoveredValue(valueStr, parsed) == IF parsed.ok THEN parsed.val ELSE Str(StripQuotes(valueStr))

RECURSIVE RecoverFrom(_, _, _, _)

\* one exec of kvPattern from lastIndex i: m is the match tried at i
RecoverStep(s, i, acc, foundAny, m) ==
  IF m.ok
    THEN RecoverFrom(s, m.next,
                     SetKey(acc, m.key, RecoveredValue(m.value, JSONParse(m.value))), TRUE)
    ELSE RecoverFrom(s, i + 1, acc, foundAny)

\* the exec loop of partialRecovery
RecoverFrom(s, i, acc, foundAny) ==
  IF i > Len(s) THEN [foundAny |-> foundAny, result |-> acc]
  ELSE RecoverStep(s, i, acc, foundAny, MatchKV(s, i))

\* return foundAny ? result : null
Recovered(r) == IF r.foundAny THEN [found |-> TRUE, obj |-> Obj(r.result)] ELSE NoText

partialRecovery(input) == Recovered(RecoverFrom(input, 1, <<>>, FALSE))

\* What a call gives back: a returned value or a thrown exception.  A key a
\* returned object does not have is undefined.
Return(v) == [threw |-> FALSE, val |-> v]
Throw(e) == [threw |-> TRUE, err |-> e]

ParseOk(data, strategy) ==
  [success |-> TRUE, data |-> data, raw |-> Undef, error |-> Undef,
   strategy |-> Str(Lit(strategy))]

ParseFailed(raw, error, strategy) ==
  [success |-> FALSE, data |-> Undef, raw |-> Str(raw), error |-> Str(error),
   strategy |-> Str(Lit(strategy))]

\* Mutant: the fallback forgets the raw text.
RawFallback_NoRaw(trimmed) ==
  Return([ParseFailed(trimmed, Lit("All parsing strategies failed"), "raw_fallback")
            EXCEPT !.raw = Undef])

\* Strategy 5: raw text fallback
RawFallback(trimmed) ==
  Return(ParseFailed(trimmed, Lit("All parsing strategies failed"), "raw_fallback"))

\* Strategy 4: partial is what partialRecovery(trimmed) gave
TryPartial(trimmed, partial) ==
  IF partial.found /\ DOMAIN partial.obj.v # {}
    THEN Return(ParseOk(partial.obj, "partial_recovery"))
    ELSE RawFallback(trimmed)

\* Strategy 3, inner try: the extracted text, cleaned
TryExtractedCleaned(trimmed, parsed) ==
  IF parsed.ok THEN Return(ParseOk(parsed.val, "extracted_cleaned"))
  ELSE TryPartial(trimmed, partialRecovery(trimmed))

\* Strategy 3, outer try: the extracted text as it is
TryExtractedDirect(trimmed, text, parsed) ==
  IF parsed.ok THEN Return(ParseOk(parsed.val, "extracted"))
  ELSE TryExtractedCleaned(trimmed, JSONParse(cleanJsonString(text)))

\* Strategy 3: "if (extracted)" is false for null and for the empty string
TryExtracted(trimmed, extracted) ==
  IF extracted.found /\ extracted.text # <<>>
    THEN TryExtractedDirect(trimmed, extracted.text, JSONParse(extracted.text))
    ELSE TryPartial(trimmed, partialRecovery(trimmed))

\* Strategy 2: parsed is JSON.parse(cleanJsonString(trimmed))
TryCleaned(trimmed, parsed) ==
  IF parsed.ok THEN Return(ParseOk(parsed.val, "cleaned"))
  ELSE TryExtracted(trimmed, extractJsonFromText(trimmed))

\* Mutant: the cleaning strategy runs before the direct parse.
TryDirect_CleanedFirst(trimmed, parsed) ==
  IF JSONParse(cleanJsonString(trimmed)).ok
    THEN Return(ParseOk(JSONParse(cleanJsonString(trimmed)).val, "cleaned"))
  ELSE IF parsed.ok THEN Return(ParseOk(parsed.val, "direct"))
  ELSE TryExtracted(trimmed, extractJsonFromText(trimmed))

\* Strategy 1: parsed is JSON.parse(trimmed)
TryDirect(trimmed, parsed) ==
  IF parsed.ok THEN Return(ParseOk(parsed.val, "direct"))
  ELSE TryCleaned(trimmed, JSONParse(cleanJsonString(trimmed)))

\* Mutant: the strategies run on the input as given, not trimmed.
ParseStrategies_NoTrim(input) ==
  IF input.t # "str" THEN Throw("TypeError")
  ELSE TryDirect(input.v, JSONParse(input.v))

\* robustJSONParse from "const trimmed = input.trim()" on: input.trim is no
\* function when input is no string
ParseStrategies(input) ==
  IF input.t # "str" THEN Throw("TypeError")
  ELSE TryDirect(Trim(input.v), JSONParse(Trim(input.v)))

\* Mutant: the guard tests only !input.
robustJSONParse_NoTypeCheck(input) ==
  IF ~Truthy(input)
    THEN Return(ParseFailed(StringOf(input), Lit("Invalid input: expected string"), "none"))
    ELSE ParseStrategies(input)

robustJSONParse(input) ==
  IF ~Truthy(input) \/ input.t # "str"
    THEN Return(ParseFailed(StringOf(input), Lit("Invalid input: expected string"), "none"))
    ELSE ParseStrategies(input)

\* data.startsWith / data.substring on a value that is no string throw
parseSSEData(data) ==
  IF data.t # "str" THEN Throw("TypeError")
  ELSE LET d == IF StartsAt(data.v, 1, <<"d", "a", "t", "a", ":", " ">>)
                  THEN Sub(data.v, 7, Len(data.v)) ELSE data.v
       IN IF d = <<"[", "D", "O", "N", "E", "]">>
            THEN Return(ParseOk(Obj(<<"d", "o", "n", "e">> :> Bool(TRUE)), "sse_done"))
            ELSE robustJSONParse(Str(d))

-----------------------------------------------------------------------------
(* src/src/lib/event-parser.ts: the SSE event parser *)

KType == <<"t", "y", "p", "e">>
KRequestId == <<"r", "e", "q", "u", "e", "s", "t", "_", "i", "d">>
KTimestamp == <<"t", "i", "m", "e", "s", "t", "a", "m", "p">>
KError == <<"e", "r", "r", "o", "r">>
DoneMarker == <<"[", "D", "O", "N", "E", "]">>
EvChatCompleted == Str(<<"c", "h", "a", "t", "_", "c", "o", "m", "p", "l", "e", "t", "e", "d">>)
EvParseError == Str(<<"p", "a", "r", "s", "e", "_", "e", "r", "r", "o", "r">>)
EvMessage == Str(<<"m", "e", "s", "s", "a", "g", "e">>)
EventPrefix == <<"e", "v", "e", "n", "t", ":", " ">>
DataPrefix == <<"d", "a", "t", "a", ":", " ">>

\* new Date().toISOString()
Now == Str(Lit("<now>"))

\* The own properties of an object; an array that was given named properties
\* carries them in p.
Props(x) ==
  IF x.t = "obj" THEN x.v
  ELSE IF x.t = "arr" /\ "p" \in DOMAIN x THEN x.p
  ELSE <<>>

\* x.k for any non-null x: a primitive, or an object without the key, gives undefined
GetProp(x, k) == IF k \in DOMAIN Props(x) THEN Props(x)[k] ELSE Undef

\* x.k = v on an object or an array
SetProp(x, k, v) ==
  IF x.t = "obj" THEN Obj((k :> v) @@ x.v)
  ELSE [t |-> "arr", v |-> x.v, p |-> (k :> v) @@ Props(x)]

\* x.k = v on a string, number or boolean is a TypeError in module (strict) code
IsPrimitive(x) == x.t \in {"str", "num", "bool"}

ParsedSSEEvent(success, event, eventType, raw, error, parseStrategy) ==
  [success |-> success, event |-> event, eventType |-> eventType, raw |-> raw,
   error |-> error, parseStrategy |-> parseStrategy]

parseSSELine(line) ==
  IF StartsAt(line, 1, EventPrefix) THEN [type |-> "event", value |-> Trim(Sub(line, 8, Len(line)))]
  ELSE IF StartsAt(line, 1, DataPrefix) THEN [type |-> "data", value |-> Sub(line, 7, Len(line))]
  ELSE [type |-> "other", value |-> line]

\* return { success: true, event: eventData, eventType: eventData.type || eventType, ... }
EventParsed(eventData, eventType, strategy) ==
  Return(ParsedSSEEvent(TRUE, eventData, OrElse(GetProp(eventData, KType), eventType),
                        Undef, Undef, strategy))

\* if (!eventData.timestamp) eventData.timestamp = new Date().toISOString()
FillTimestamp(eventData, eventType, strategy) ==
  IF ~Truthy(GetProp(eventData, KTimestamp))
    THEN EventParsed(SetProp(eventData, KTimestamp, Now), eventType, strategy)
    ELSE EventParsed(eventData, eventType, strategy)

\* if (!eventData.request_id && requestId) eventData.request_id = requestId
FillRequestId(eventData, eventType, requestId, strategy) ==
  IF ~Truthy(GetProp(eventData, KRequestId)) /\ Truthy(requestId)
    THEN FillTimestamp(SetProp(eventData, KRequestId, requestId), eventType, strategy)
    ELSE FillTimestamp(eventData, eventType, strategy)

\* Mutant: the declared type replaces the payload's own.
BackFill_DeclaredWins(eventData, eventType, requestId, strategy) ==
  IF IsPrimitive(eventData) THEN Throw("TypeError")
  ELSE FillRequestId(SetProp(eventData, KType, eventType), eventType, requestId, strategy)

\* if (!eventData.type) eventData.type = eventType: the success branch
BackFill(eventData, eventType, requestId, strategy) ==
  IF Truthy(GetProp(eventData, KType)) THEN FillRequestId(eventData, eventType, requestId, strategy)
  ELSE IF IsPrimitive(eventData) THEN Throw("TypeError")
  ELSE FillRequestId(SetProp(eventData, KType, eventType), eventType, requestId, strategy)

\* Mutant: a failed parse is reported under the declared type.
OnParseResult_DeclaredType(eventType, data, requestId, parseResult) ==
  IF parseResult.success /\ Truthy(parseResult.data)
    THEN BackFill(parseResult.data, eventType, requestId, parseResult.strategy)
    ELSE Return(ParsedSSEEvent(FALSE, Undef, eventType,
                               OrElse(parseResult.raw, data),
                               OrElse(parseResult.error, Str(Lit("Failed to parse SSE data"))),
                               parseResult.strategy))

\* what parseSSEEvent does with parseResult, the value robustJSONParse returned
OnParseResult(eventType, data, requestId, parseResult) ==
  IF parseResult.success /\ Truthy(parseResult.data)
    THEN BackFill(parseResult.data, eventType, requestId, parseResult.strategy)
    ELSE Return(ParsedSSEEvent(FALSE, Undef, EvParseError,
                               OrElse(parseResult.raw, data),
                               OrElse(parseResult.error, Str(Lit("Failed to parse SSE data"))),
                               parseResult.strategy))

AfterParse(eventType, data, requestId, call) ==
  IF call.threw THEN call ELSE OnParseResult(eventType, data, requestId, call.val)

\* Mutant: the [DONE] marker is handed to the JSON parser like any data.
parseSSEEvent_NoDoneCheck(eventType, data, requestId) ==
  AfterParse(eventType, data, requestId, robustJSONParse(data))

parseSSEEvent(eventType, data, requestId) ==
  IF data = Str(DoneMarker)
    THEN Return(ParsedSSEEvent(TRUE,
                  Obj((KType :> EvChatCompleted)
                        @@ (KRequestId :> OrElse(requestId, Str(<<>>)))
                        @@ (KTimestamp :> Now)),
                  EvChatCompleted, Undef, Undef, Undef))
    ELSE AfterParse(eventType, data, requestId, robustJSONParse(data))

\* rawSSE.split('\n')
\* (the text from i on is cut at its first newline; cur is what the piece being
\* cut already holds)
RECURSIVE Split(_, _, _)
Split(s, i, cur) ==
  IF \A k \in i..Len(s) : s[k] # "\n" THEN <<cur \o Sub(s, i, Len(s))>>
  ELSE <<cur \o Sub(s, i, (CHOOSE k \in i..Len(s) : s[k] = "\n" /\ \A j \in i..(k - 1) : s[j] # "\n") - 1)>>
         \o Split(s, 1 + CHOOSE k \in i..Len(s) : s[k] = "\n" /\ \A j \in i..(k - 1) : s[j] # "\n", <<>>)

\* currentData.join('\n')
RECURSIVE Join(_, _)
Join(parts, i) ==
  IF i > Len(parts) THEN <<>>
  ELSE (IF i > 1 THEN <<"\n">> ELSE <<>>) \o parts[i] \o Join(parts, i + 1)

\* "if (currentData.length > 0) events.push(parseSSEEvent(...))": the call made,
\* or none
Flush(currentEventType, currentData, requestId) ==
  parseSSEEvent(OrElse(currentEventType, EvMessage),
                Str(Join(currentData, 1)), requestId)

\* handleSSEEvent.  What a run of it leaves behind: the value returned (none)
\* and the handlers invoked, each with its arguments.
EvToolBlocked == Str(<<"t", "o", "o", "l", "_", "b", "l", "o", "c", "k", "e", "d">>)
EvToolError == Str(<<"t", "o", "o", "l", "_", "e", "r", "r", "o", "r">>)
EvValidationError == Str(<<"v", "a", "l", "i", "d", "a", "t", "i", "o", "n", "_", "e", "r", "r", "o", "r">>)
KRawContentPreview == <<"r", "a", "w", "_", "c", "o", "n", "t", "e", "n", "t", "_", "p", "r", "e", "v", "i", "e", "w">>

HandlerRun(invoked) == [threw |-> FALSE, val |-> Undef, invoked |-> invoked]

\* handlers.h?.(args): handlers is the set of the handlers supplied
Invoke(handlers, h, args) ==
  HandlerRun(IF h \in handlers THEN <<[handler |-> h, args |-> args]>> ELSE <<>>)

\* Mutant: a failed parse goes on to the switch after onParseError.
OnFailure_NoReturn(parsed, handlers) ==
  HandlerRun(
    Invoke(handlers, "onParseError",
           <<OrElse(parsed.raw, Str(<<>>)), OrElse(parsed.error, Str(Lit("Unknown error")))>>).invoked
      \o (IF Truthy(parsed.event) THEN Invoke(handlers, "onSuccess", <<parsed.event>>).invoked
          ELSE <<>>))

\* if (!parsed.success) { handlers.onParseError?.(...); return }
OnFailure(parsed, handlers) ==
  Invoke(handlers, "onParseError",
         <<OrElse(parsed.raw, Str(<<>>)), OrElse(parsed.error, Str(Lit("Unknown error")))>>)

\* switch (parsed.eventType)
OnEventType(eventType, event, handlers) ==
  IF eventType = EvToolBlocked THEN Invoke(handlers, "onToolBlocked", <<event>>)
  ELSE IF eventType = EvToolError THEN Invoke(handlers, "onToolError", <<event>>)
  ELSE IF eventType = EvParseError
    THEN Invoke(handlers, "onParseError",
                <<OrElse(GetProp(event, KRawContentPreview), Str(<<>>)),
                  OrElse(GetProp(event, KError), Str(Lit("Parse error")))>>)
  ELSE IF eventType = EvValidationError THEN Invoke(handlers, "onValidationError", <<event>>)
  ELSE Invoke(handlers, "onSuccess", <<event>>)

handleSSEEvent(parsed, handlers) ==
  IF ~parsed.success THEN OnFailure(parsed, handlers)
  ELSE IF ~Truthy(parsed.event) THEN HandlerRun(<<>>)
  ELSE OnEventType(parsed.eventType, parsed.event, handlers)

-----------------------------------------------------------------------------
(* JSON.stringify, for values that hold no undefined at the top *)

EscapeChar(c) ==
  CASE c = Q -> <<BS, Q>>
    [] c = BS -> <<BS, BS>>
    [] c = "\n" -> <<BS, "n">>
    [] c = "\r" -> <<BS, "r">>
    [] c = "\t" -> <<BS, "t">>
    [] c = "\f" -> <<BS, "f">>
    [] c = BSP -> <<BS, "b">>
    [] c = CTL -> <<BS, "u", "0", "0", "0", "1">>
    [] OTHER -> <<c>>

RECURSIVE QuoteBody(_, _)
QuoteBody(s, i) == IF i > Len(s) THEN <<>> ELSE EscapeChar(s[i]) \o QuoteBody(s, i + 1)

Quote(s) == <<Q>> \o QuoteBody(s, 1) \o <<Q>>

RECURSIVE JSONStringify(_)
RECURSIVE StringifyElements(_, _)
RECURSIVE StringifyMembers(_, _, _)

StringifyElements(a, i) ==
  IF i > Len(a) THEN <<>>
  ELSE (IF i > 1 THEN <<",">> ELSE <<>>)
         \o (IF a[i].t = "undef" THEN <<"n", "u", "l", "l">> ELSE JSONStringify(a[i]))
         \o StringifyElements(a, i + 1)

\* the members whose value is not undefined, one key after the other
StringifyMembers(f, keys, first) ==
  IF keys = {} THEN <<>>
  ELSE LET k == CHOOSE x \in keys : TRUE
       IN IF f[k].t = "undef" THEN StringifyMembers(f, keys \ {k}, first)
          ELSE (IF first THEN <<>> ELSE <<",">>) \o Quote(k) \o <<":">> \o JSONStringify(f[k])
                 \o StringifyMembers(f, keys \ {k}, FALSE)

JSONStringify(x) ==
  CASE x.t = "null" -> <<"n", "u", "l", "l">>
    [] x.t = "bool" -> StringOf(x)
    [] x.t = "num" -> NumToString(x)
    [] x.t = "str" -> Quote(x.v)
    [] x.t = "arr" -> <<"[">> \o StringifyElements(x.v, 1) \o <<"]">>
    [] x.t = "obj" -> <<"{">> \o StringifyMembers(x.v, DOMAIN x.v, TRUE) \o <<"}">>

-----------------------------------------------------------------------------
(* src/unnamed/part_002: normalizeResponse *)

KStatus == <<"s", "t", "a", "t", "u", "s">>
KResult == <<"r", "e", "s", "u", "l", "t">>
KMessage == <<"m", "e", "s", "s", "a", "g", "e">>
KMetadata == <<"m", "e", "t", "a", "d", "a", "t", "a">>
KResponse == <<"r", "e", "s", "p", "o", "n", "s", "e">>
KSuccess == <<"s", "u", "c", "c", "e", "s", "s">>
KText == <<"t", "e", "x", "t">>
KValue == <<"v", "a", "l", "u", "e">>

StatusError == Str(KError)
StatusSuccess == Str(KSuccess)

\* A NormalizedAgentResponse; a key the code leaves out is undefined.
Normalized(status, result, message, metadata) ==
  [status |-> status, result |-> result, message |-> message, metadata |-> metadata]

\* Mutant: every status is reported as success.
StatusOf_AlwaysSuccess(status) == StatusSuccess

\* status === 'error' ? 'error' : 'success'
StatusOf(status) == IF status = StatusError THEN StatusError ELSE StatusSuccess

\* Mutant: a falsy result is passed through.
ResultOrEmpty_NoDefault(result) == result

\* parsed.result || {}
ResultOrEmpty(result) == OrElse(result, EmptyObj)

\* Mutant: the rest keeps the message key.
RestOf_KeepsMessage(parsed) ==
  Obj([k \in DOMAIN parsed.v \ {KStatus, KMetadata} |-> parsed.v[k]])

\* const { status, message, metadata, ...rest } = parsed
RestOf(parsed) ==
  Obj([k \in DOMAIN parsed.v \ {KStatus, KMessage, KMetadata} |-> parsed.v[k]])

RECURSIVE normalizeResponse(_)
normalizeResponse(parsed) ==
  IF ~Truthy(parsed)
    THEN Normalized(StatusError, EmptyObj, Str(Lit("Empty response from agent")), Undef)
  ELSE IF parsed.t = "str"
    THEN Normalized(StatusSuccess, Obj(KText :> parsed), parsed, Undef)
  ELSE IF ~TypeofObject(parsed)
    THEN Normalized(StatusSuccess, Obj(KValue :> parsed), Str(StringOf(parsed)), Undef)
  ELSE IF HasKey(parsed, KStatus) /\ HasKey(parsed, KResult)
    THEN Normalized(StatusOf(Get(parsed, KStatus)), ResultOrEmpty(Get(parsed, KResult)),
                    Get(parsed, KMessage), Get(parsed, KMetadata))
  ELSE IF HasKey(parsed, KStatus)
    THEN Normalized(StatusOf(Get(parsed, KStatus)),
                    IF DOMAIN RestOf(parsed).v # {} THEN RestOf(parsed) ELSE EmptyObj,
                    Get(parsed, KMessage), Get(parsed, KMetadata))
  ELSE IF HasKey(parsed, KResult)
    THEN Normalized(StatusSuccess, Get(parsed, KResult),
                    Get(parsed, KMessage), Get(parsed, KMetadata))
  ELSE IF HasKey(parsed, KMessage) /\ Get(parsed, KMessage).t = "str"
    THEN Normalized(StatusSuccess, Obj(KText :> Get(parsed, KMessage)),
                    Get(parsed, KMessage), Undef)
  ELSE IF HasKey(parsed, KResponse) THEN normalizeResponse(Get(parsed, KResponse))
  ELSE Normalized(StatusSuccess, parsed, Undef, Undef)

-----------------------------------------------------------------------------
(* src/unnamed/part_002: callAIAgent.  The request ids, the session ids and   *)
(* the timestamp it echoes are left out.                                      *)

AIAgentResponse(success, response, error, raw_response) ==
  [success |-> Bool(success), response |-> response, error |-> error,
   raw_response |-> raw_response]

\* the three "success: false" returns
AgentFailure(errorMsg, raw_response) ==
  AIAgentResponse(FALSE, Normalized(StatusError, EmptyObj, errorMsg, Undef), errorMsg,
                  raw_response)

\* catch (error): error instanceof Error ? error.message : 'Network error'
AgentCaught(error) ==
  AgentFailure(IF error.isError THEN error.message ELSE Str(Lit("Network error")), Undef)

\* `API returned status ${response.status}`
StatusMessage(status) == Str(Lit("API returned status ") \o NatDigits(status))

\* response.ok: llm is what parseLLMJson(rawText) gave back
AgentOk(rawText, llm) ==
  IF llm.threw THEN AgentCaught(llm.err)
  ELSE IF Get(llm.val, KSuccess) = Bool(FALSE) /\ Truthy(Get(llm.val, KError))
    THEN AgentFailure(Get(llm.val, KError), Str(rawText))
  ELSE AIAgentResponse(TRUE, normalizeResponse(llm.val), Undef, Str(rawText))

\* !response.ok: errorData = parseLLMJson(rawText) || JSON.parse(rawText), the
\* inner try swallowing what either throws
\* errorMsg = errorData?.error || errorData?.message || errorMsg
ErrorMessageOf(errorData, errorMsg) ==
  OrElse(OrElse(Get(errorData, KError), Get(errorData, KMessage)), errorMsg)

\* ... || JSON.parse(rawText), which may throw into the empty catch
ErrorDataFromText(second, errorMsg) ==
  IF second.ok THEN ErrorMessageOf(second.val, errorMsg) ELSE errorMsg

ErrorMessage(rawText, llm, errorMsg) ==
  IF llm.threw THEN errorMsg
  ELSE IF Truthy(llm.val) THEN ErrorMessageOf(llm.val, errorMsg)
  ELSE ErrorDataFromText(JSONParse(rawText), errorMsg)

\* Mutant: the response carries the default message, the error the extracted one.
AgentNotOk_DefaultMessage(status, rawText, llm) ==
  [AgentFailure(ErrorMessage(rawText, llm, StatusMessage(status)), Str(rawText))
     EXCEPT !.response.message = StatusMessage(status)]

AgentNotOk(status, rawText, llm) ==
  AgentFailure(ErrorMessage(rawText, llm, StatusMessage(status)), Str(rawText))

Pending == [state |-> "pending"]
Fulfilled(v) == [state |-> "fulfilled", value |-> v]
Rejected(e) == [state |-> "rejected", reason |-> e]

-----------------------------------------------------------------------------
(* Bounds and inputs *)

MaxParts == 3
MaxNest == 1
MaxLines == 3

\* the pieces an input text is made of: JSON, broken JSON, prose, a code fence
Parts ==
  { <<"{", Q, "a", Q, ":", "1", "}">>,
    <<"{">>,
    <<"}">>,
    <<",", "}">>,
    <<Q, "b", Q, ":", " ", Q, "x", Q>>,
    <<"x", " ">>,
    <<TICK, TICK, TICK>>,
    <<"[", "1", "]">>,
    <<"0">>,
    <<" ">> }

RECURSIVE Concats(_)
Concats(n) ==
  IF n = 0 THEN {<<>>}
  ELSE LET prev == Concats(n - 1) IN prev \cup {p \o x : p \in Parts, x \in prev}

\* texts the pieces do not make
ExtraTexts ==
  { <<"n", "u", "l", "l">>,
    <<"t", "r", "u", "e">>,
    <<Q, "s", Q>>,
    <<Q, Q>>,
    <<"-", "1", ".", "5", "0">>,
    <<"{", Q, "a", Q, ":", "1", ",", Q, "a", Q, ":", "2", "}">>,
    <<"[", "D", "O", "N", "E", "]">>,
    <<"d", "a", "t", "a", ":", " ", "[", "D", "O", "N", "E", "]">>,
    <<"d", "a", "t", "a", ":", " ", "{", Q, "a", Q, ":", "1", "}">>,
    <<"d", "a", "t", "a", ":", " ", "x">>,
    <<"\n", "{", Q, "a", Q, ":", "\n", "1", "}", "\n">>,
    <<"{", Q, "a", Q, ":", "[", "1", ",", " ", "]", ",", "}">>,
    <<"[", "1", ",", "2", ",", "]">>,
    <<" ", "{", Q, "a", Q, ":", "1", ",", "}", "\n">>,
    <<"{", Q, "a", Q, ":", Q, "x", ",", "]", Q, ",", "}">>,
    <<"{", Q, "a", Q, ":", "1", ",", ",", "}">>,
    <<"{", Q, "a", Q, ":", "1", ",", "}">>,
    <<"{", Q, "a", Q, ":", " ", "1", ",", " ", "g", "a", "r", "b", "a", "g", "e", " ", Q, "b", Q, ":", " ", Q, "x", Q>>,
    <<"{", Q, "a", Q, ":", " ", "-", "1">>,
    <<"{", Q, "n", Q, ":", " ", "1", "e", "2", ",", " ", Q, "b", Q, ":", " ", Q, "x", Q>>,
    <<Q, "_", "_", "p", "r", "o", "t", "o", "_", "_", Q, ":", " ", "1">>,
    <<"n", "o", "t", " ", "j", "s", "o", "n", " ", "a", "t", " ", "a", "l", "l">>,
    <<"{", Q, "a", Q, ":", " ", "[", "1", ",", " ", "{", Q, "b", Q, ":", " ", "2", "}", "]", ",", " ", Q, "c", Q, ":", " ", "{", Q, "d", Q, ":", " ", "3", "}">> }

\* prose around a JSON text
Prose ==
  { <<>>,
    <<"x", " ">>,
    <<" ", "e", "n", "d">>,
    <<"h", "e", "r", "e", " ", "i", "s", " ", "d", "a", "t", "a", ":", " ">> }

\* JSON object texts: flat, nested, and with braces inside their strings
JsonTexts ==
  { <<"{", Q, "a", Q, ":", "1", "}">>,
    <<"{", Q, "a", Q, ":", "1", ",", " ", Q, "b", Q, ":", "[", "1", ",", "2", ",", "{", Q, "c", Q, ":", "3", "}", "]", "}">>,
    <<"{", "}">>,
    <<"{", Q, "a", Q, ":", "{", Q, "b", Q, ":", "[", "]", "}", ",", Q, "c", Q, ":", Q, "d", " ", "e", Q, "}">>,
    <<"{", Q, "a", Q, ":", Q, "}", Q, "}">>,
    <<"{", Q, "a", Q, ":", "{", Q, "b", Q, ":", Q, "}", Q, "}", ",", Q, "c", Q, ":", "1", "}">>,
    <<"{", Q, "a", Q, ":", Q, "{", Q, "}">> }

\* prose, a JSON object, prose
Embedded == {pre \o j \o post : pre \in Prose, j \in JsonTexts, post \in Prose}

NonStrings == {Undef, Null, Bool(TRUE), Bool(FALSE), Num(0), Num(5), EmptyObj, Arr(<<Num(1)>>)}

\* what robustJSONParse and parseSSEData are called with
ParseInputs == {Str(x) : x \in Concats(MaxParts) \cup ExtraTexts \cup Embedded} \cup NonStrings

\* what normalizeResponse is called with: scalars, arrays, and every object made
\* of the keys the code looks at (Undef: the key is left out)
StatusVals == {Undef, StatusError, StatusSuccess, Str(<<"o", "k">>), Null}
ResultVals ==
  {Undef, Null, Num(0), Str(<<"r">>), Arr(<<>>), EmptyObj,
   Obj(<<"x">> :> Arr(<<NormNum(15, 0 - 1), Str(<<Q, BS, "\n">>), Bool(TRUE), Null>>))}
MessageVals == {Undef, Str(<<>>), Str(<<"h", "i">>), Str(<<"a", Q, BS, "\n">>), Num(5)}
MetadataVals == {Undef, Null, Obj(<<"k">> :> Str(<<"v">>))}
ExtraVals == {Undef, Num(1)}

RECURSIVE Nested(_)
Nested(n) ==
  IF n = 0 THEN {Null, Str(<<"t">>), Obj(KStatus :> StatusError), Obj(KResult :> Null)}
  ELSE Nested(n - 1) \cup {Obj(KResponse :> x) : x \in Nested(n - 1)}

ResponseVals == {Undef} \cup Nested(MaxNest)

MakeObj(st, re, me, md, rs, ex) ==
  LET f == (KStatus :> st) @@ (KResult :> re) @@ (KMessage :> me) @@ (KMetadata :> md)
             @@ (KResponse :> rs) @@ (<<"x">> :> ex)
  IN Obj([k \in {k \in DOMAIN f : f[k] # Undef} |-> f[k]])

Objects ==
  {MakeObj(st, re, me, md, rs, ex) :
     st \in StatusVals, re \in ResultVals, me \in MessageVals, md \in MetadataVals,
     rs \in ResponseVals, ex \in ExtraVals}

Scalars ==
  {Undef, Null, Bool(TRUE), Bool(FALSE), Num(0), Num(5), NormNum(0 - 25, 0 - 1),
   Str(<<>>), Str(<<"h", "i">>), Arr(<<>>), Arr(<<Num(1)>>)}

NormalizeInputs == Scalars \cup Objects

\* canonical responses: status 'success' or 'error', result a mapping, message a
\* string when present, metadata a mapping when present, no other key
IsCanonical(x) ==
  /\ x.t = "obj"
  /\ DOMAIN x.v \subseteq {KStatus, KResult, KMessage, KMetadata}
  /\ {KStatus, KResult} \subseteq DOMAIN x.v
  /\ x.v[KStatus] \in {StatusError, StatusSuccess}
  /\ x.v[KResult].t = "obj"
  /\ KMessage \in DOMAIN x.v => x.v[KMessage].t = "str"
  /\ KMetadata \in DOMAIN x.v => x.v[KMetadata].t = "obj"

\* the data of one SSE frame
EventData ==
  { <<"5">>,
    <<"0">>,
    <<Q, "s", Q>>,
    <<Q, Q>>,
    <<"t", "r", "u", "e">>,
    <<"f", "a", "l", "s", "e">>,
    <<"n", "u", "l", "l">>,
    <<"[", "1", "]">>,
    <<"[", "]">>,
    <<"{", "}">>,
    <<"{", Q, "a", Q, ":", "1", "}">>,
    <<"{", Q, "t", "y", "p", "e", Q, ":", Q, "t", "o", "o", "l", "_", "e", "r", "r", "o", "r", Q, "}">>,
    <<"{", Q, "t", "y", "p", "e", Q, ":", Q, "x", Q, ",", Q, "r", "e", "q", "u", "e", "s", "t", "_", "i", "d", Q, ":", Q, "q", Q, ",", Q, "t", "i", "m", "e", "s", "t", "a", "m", "p", Q, ":", Q, "t", Q, "}">>,
    <<"[", "D", "O", "N", "E", "]">>,
    <<" ", "[", "D", "O", "N", "E", "]">>,
    <<"n", "o", "t", " ", "j", "s", "o", "n">>,
    <<"{", Q, "a", Q, ":", "1", ",", "}">>,
    <<"{", Q, "t", "y", "p", "e", Q, ":", Q, Q, ",", Q, "r", "e", "q", "u", "e", "s", "t", "_", "i", "d", Q, ":", "n", "u", "l", "l", ",", Q, "t", "i", "m", "e", "s", "t", "a", "m", "p", Q, ":", "0", ",", Q, "a", Q, ":", "1", "}">>,
    <<"{", Q, "r", "e", "q", "u", "e", "s", "t", "_", "i", "d", Q, ":", Q, "q", Q, "}">>,
    <<>> }

EventArgs ==
  [eventType : {EvMessage, Str(<<>>), Str(<<"t", "o", "o", "l", "_", "e", "r", "r", "o", "r">>)},
   data : {Str(x) : x \in EventData},
   requestId : {Undef, Str(<<>>), Str(<<"r", "1">>)}]

\* the lines a raw SSE text is made of
SSELines ==
  { <<"e", "v", "e", "n", "t", ":", " ", "t", "o", "o", "l", "_", "e", "r", "r", "o", "r">>,
    <<"d", "a", "t", "a", ":", " ", "{", Q, "a", Q, ":", "1", "}">>,
    <<"d", "a", "t", "a", ":", " ", "5">>,
    <<"d", "a", "t", "a", ":", " ", "[", "D", "O", "N", "E", "]">>,
    <<"d", "a", "t", "a", ":", " ", "{", Q, "a", Q, ":">>,
    <<"1", "}">>,
    <<"d", "a", "t", "a", ":", " ", "1", "}">>,
    <<>>,
    <<" ">>,
    <<":", " ", "p", "i", "n", "g">>,
    <<"e", "v", "e", "n", "t", ":", " ", "x", " ">>,
    <<"e", "v", "e", "n", "t", ":", " ">> }

RECURSIVE LineSeqs(_)
LineSeqs(n) ==
  IF n = 0 THEN {<<>>}
  ELSE LET prev == LineSeqs(n - 1) IN prev \cup {<<l>> \o x : l \in SSELines, x \in prev}

StreamInputs == {Join(ls, 1) : ls \in LineSeqs(MaxLines)}

\* what the transport and parseLLMJson (utils/jsonParser, not part of these
\* sources) hand to callAIAgent: any value, or an exception
ThrownValues == {[isError |-> TRUE, message |-> Str(Lit("Failed to fetch"))],
                 [isError |-> TRUE, message |-> Str(<<>>)],
                 [isError |-> FALSE]}

LlmValues ==
  NormalizeInputs
    \cup {Obj((KSuccess :> Bool(FALSE)) @@ (KError :> e)) : e \in {Str(<<"b", "a", "d">>), Str(<<>>), Num(7)}}
    \cup {Obj((KError :> Str(<<"e", "1">>)) @@ (KMessage :> Str(<<"m", "1">>))),
          Obj(KError :> Obj(<<"c">> :> Num(1)))}

LlmOutcomes == {Return(v) : v \in LlmValues} \cup {[threw |-> TRUE, err |-> e] : e \in ThrownValues}

\* response bodies
RawTexts ==
  { <<"{", Q, "m", "e", "s", "s", "a", "g", "e", Q, ":", Q, "d", "e", "n", "i", "e", "d", Q, "}">>,
    <<"n", "u", "l", "l">>,
    <<"o", "o", "p", "s">>,
    <<>> }

\* what extractJsonFromText is given: the trimmed input of robustJSONParse
ArrayTexts ==
  { <<"h", "e", "r", "e", ":", " ", "[", "{", Q, "a", Q, ":", "1", "}", ",", "{", Q, "b", Q, ":", "2", "}", "]", " ", "e", "n", "d">>,
    <<"[", "{", Q, "a", Q, ":", "1", "}", "]", " ", "x">>,
    <<"[", "1", ",", "2", "]", " ", "t", "h", "e", "n", " ", "{", Q, "a", Q, ":", "1", "}">>,
    <<"{", " ", "{", Q, "a", Q, ":", "1", "}">>,
    <<"[", " ", "[", "1", "]">>,
    <<"]", " ", "[", "1", ",", "2", "]">>,
    <<"}", " ", "[", "1", "]">>,
    <<"x", " ", TICK, TICK, TICK, "j", "s", "o", "n", "\n", "{", Q, "a", Q, ":", "1", "}", "\n", TICK, TICK, TICK, " ", "y", " ", "{", Q, "b", Q, ":", "2", "}">>,
    <<TICK, TICK, TICK, "\n", "n", "o", "t", " ", "j", "s", "o", "n", "\n", TICK, TICK, TICK, " ", "{", Q, "a", Q, ":", "1", "}">>,
    <<TICK, TICK, TICK, " ", TICK, TICK, TICK, " ", "[", "1", "]">>,
    <<TICK, TICK, TICK, "j", "s", "o", "n", " ", "{", Q, "a", Q, ":", "1", "}">>,
    <<"[", "1", ",", " ", "[", "2", ",", " ", "3", "]", "]", " ", "x">>,
    <<"{", Q, "a", Q, ":", "[", "1", ",", "2", "]", "}", " ", "[", "3", "]">> }

ExtractTexts == {Trim(x) : x \in Concats(MaxParts) \cup ExtraTexts \cup Embedded \cup ArrayTexts}

\* what handleSSEEvent is called with: what parseSSEEvent returns, and results
\* put together by hand; any of the five handlers supplied or not
Handlers == {"onSuccess", "onParseError", "onToolBlocked", "onToolError", "onValidationError"}

ReturnedEvents ==
  {parseSSEEvent(a.eventType, a.data, a.requestId).val :
     a \in {x \in EventArgs : ~parseSSEEvent(x.eventType, x.data, x.requestId).threw}}

MadeEvents ==
  [success : BOOLEAN,
   event : {Undef, EmptyObj,
            Obj((KError :> Str(<<"e">>)) @@ (KRawContentPreview :> Str(<<"p">>)))},
   eventType : {Undef, EvToolBlocked, EvToolError, EvParseError, EvValidationError, EvMessage},
   raw : {Undef, Str(<<"r">>)},
   error : {Undef, Str(<<"x">>)},
   parseStrategy : {Undef}]

HandleArgs == [parsed : ReturnedEvents \cup MadeEvents, handlers : SUBSET Handlers]

-----------------------------------------------------------------------------
(* State *)

NoCall == op = "none" /\ arg = Null /\ ret = Null

StreamOff ==
  [pc |-> "off", raw |-> <<>>, requestId |-> Undef, lines |-> <<>>, i |-> 0,
   currentEventType |-> Null, currentData |-> <<>>, events |-> <<>>, threw |-> FALSE,
   calls |-> <<>>]

AgentOff == [pc |-> "off", ok |-> FALSE, status |-> 0, promise |-> Pending]

\* the Home page not mounted, testAgentWithProgress not called
HomeOff == [pc |-> "off"]

TestOff == [pc |-> "off"]

OthersOff == home = HomeOff /\ test = TestOff

-----------------------------------------------------------------------------
(* The JSON parser, called on one input *)

Init ==
  /\ op = "none" /\ arg \in ParseInputs /\ ret = Null /\ stream = StreamOff /\ agent = AgentOff
  /\ OthersOff

CallRobustJSONParse ==
  /\ op = "none"
  /\ op' = "robustJSONParse"
  /\ ret' = robustJSONParse(arg)
  /\ UNCHANGED <<arg, stream, agent, home, test>>

CallParseSSEData ==
  /\ op = "none"
  /\ op' = "parseSSEData"
  /\ ret' = parseSSEData(arg)
  /\ UNCHANGED <<arg, stream, agent, home, test>>

Next == CallRobustJSONParse \/ CallParseSSEData

Spec == Init /\ [][Next]_vars

-----------------------------------------------------------------------------
(* normalizeResponse, called on one value; and the parse of a stringified    *)
(* canonical response handed to it                                           *)

InitNormalize ==
  /\ op = "none" /\ arg \in NormalizeInputs /\ ret = Null /\ stream = StreamOff /\ agent = AgentOff
  /\ OthersOff

CallNormalizeResponse ==
  /\ op = "none"
  /\ op' = "normalizeResponse"
  /\ ret' = Return(normalizeResponse(arg))
  /\ UNCHANGED <<arg, stream, agent, home, test>>

\* normalize(parse(JSON.stringify(c)).data)
NormalizeParsed(call) ==
  IF call.threw THEN call ELSE Return(normalizeResponse(call.val.data))

RoundTrip(c) == NormalizeParsed(robustJSONParse(Str(JSONStringify(c))))

CallRoundTrip ==
  /\ op = "none"
  /\ IsCanonical(arg)
  /\ op' = "roundTrip"
  /\ ret' = RoundTrip(arg)
  /\ UNCHANGED <<arg, stream, agent, home, test>>

NextNormalize == CallNormalizeResponse \/ CallRoundTrip

SpecNormalize == InitNormalize /\ [][NextNormalize]_vars

-----------------------------------------------------------------------------
(* parseSSEEvent called on one frame; parseSSEStream run line by line *)

InitSSE ==
  /\ op = "none" /\ ret = Null /\ agent = AgentOff /\ OthersOff
  /\ \/ arg \in EventArgs /\ stream = StreamOff
     \/ /\ arg = Null
        /\ \E raw \in StreamInputs, rid \in {Undef, Str(<<"r", "1">>)} :
             stream = [StreamOff EXCEPT !.pc = "idle", !.raw = raw, !.requestId = rid]

CallParseSSEEvent ==
  /\ op = "none" /\ stream.pc = "off"
  /\ op' = "parseSSEEvent"
  /\ ret' = parseSSEEvent(arg.eventType, arg.data, arg.requestId)
  /\ UNCHANGED <<arg, stream, agent, home, test>>

\* const lines = rawSSE.split('\n'); currentEventType = null; currentData = []
StreamStart ==
  /\ stream.pc = "idle"
  /\ stream' = [stream EXCEPT !.pc = "loop", !.lines = Split(stream.raw, 1, <<>>), !.i = 1]
  /\ UNCHANGED <<op, arg, ret, agent, home, test>>

\* the flush shared by the blank line and the end of the input: the stream
\* with the event pushed, or with the exception parseSSEEvent threw
Pushed(st, call) ==
  IF call.threw THEN [st EXCEPT !.pc = "done", !.threw = TRUE]
  ELSE [st EXCEPT !.events = Append(@, call.val)]

\* the arguments of the call of parseSSEEvent, kept in calls (a history of the
\* calls made, which the code does not keep)
Called(st) ==
  [st EXCEPT !.calls = Append(@, [eventType |-> OrElse(st.currentEventType, EvMessage),
                                  data |-> Str(Join(st.currentData, 1))])]

Flushed(st) ==
  IF st.currentData = <<>> THEN st
  ELSE Pushed(Called(st), Flush(st.currentEventType, st.currentData, st.requestId))

\* Mutant: the declared type outlives the blank line.
AfterBlank_KeepsType(st) ==
  IF st.threw THEN st ELSE [st EXCEPT !.currentData = <<>>]

\* an empty line: the event is pushed, then "currentEventType = null;
\* currentData = []", unless parseSSEEvent threw
AfterBlank(st) ==
  IF st.threw THEN st ELSE [st EXCEPT !.currentEventType = Null, !.currentData = <<>>]

\* Mutant: a data line replaces the data buffered so far.
OnParsedLine_Overwrites(st, parsed) ==
  IF parsed.type = "event" THEN [st EXCEPT !.currentEventType = Str(parsed.value)]
  ELSE IF parsed.type = "data" THEN [st EXCEPT !.currentData = <<parsed.value>>]
  ELSE st

\* a line that is not empty, parsed
OnParsedLine(st, parsed) ==
  IF parsed.type = "event" THEN [st EXCEPT !.currentEventType = Str(parsed.value)]
  ELSE IF parsed.type = "data" THEN [st EXCEPT !.currentData = Append(@, parsed.value)]
  ELSE st

\* the body of "for (const line of lines)"
OnLine(st, line) ==
  IF Trim(line) = <<>> THEN AfterBlank(Flushed(st)) ELSE OnParsedLine(st, parseSSELine(line))

\* one iteration of "for (const line of lines)"
StreamLine ==
  /\ stream.pc = "loop" /\ stream.i <= Len(stream.lines)
  /\ stream' = OnLine([stream EXCEPT !.i = @ + 1], stream.lines[stream.i])
  /\ UNCHANGED <<op, arg, ret, agent, home, test>>

\* after the loop: "Handle remaining data", return events
StreamEnd ==
  /\ stream.pc = "loop" /\ stream.i > Len(stream.lines)
  /\ stream' = [Flushed(stream) EXCEPT !.pc = "done"]
  /\ UNCHANGED <<op, arg, ret, agent, home, test>>

NextSSE == CallParseSSEEvent \/ StreamStart \/ StreamLine \/ StreamEnd

SpecSSE == InitSSE /\ [][NextSSE]_vars

-----------------------------------------------------------------------------
(* callAIAgent: the call, the two awaits, the settled promise *)

InitAgent ==
  NoCall /\ stream = StreamOff /\ agent = [AgentOff EXCEPT !.pc = "idle"] /\ OthersOff

\* up to "await fetch(...)"
AgentCall ==
  /\ agent.pc = "idle"
  /\ agent' = [agent EXCEPT !.pc = "fetch"]
  /\ UNCHANGED <<op, arg, ret, stream, home, test>>

\* fetch rejects: the catch block
AgentFetchRejects ==
  /\ agent.pc = "fetch"
  /\ \E e \in ThrownValues :
       agent' = [agent EXCEPT !.pc = "done", !.promise = Fulfilled(AgentCaught(e))]
  /\ UNCHANGED <<op, arg, ret, stream, home, test>>

\* fetch resolves: up to "await response.text()"
AgentFetchResponds ==
  /\ agent.pc = "fetch"
  /\ \E r \in {[ok |-> TRUE, status |-> 200], [ok |-> FALSE, status |-> 500]} :
       agent' = [agent EXCEPT !.pc = "text", !.ok = r.ok, !.status = r.status]
  /\ UNCHANGED <<op, arg, ret, stream, home, test>>

\* response.text() rejects: the catch block
AgentTextRejects ==
  /\ agent.pc = "text"
  /\ \E e \in ThrownValues :
       agent' = [agent EXCEPT !.pc = "done", !.promise = Fulfilled(AgentCaught(e))]
  /\ UNCHANGED <<op, arg, ret, stream, home, test>>

\* the body arrives: parse, normalize, return
AgentTextArrives ==
  /\ agent.pc = "text"
  /\ \E rawText \in RawTexts, llm \in LlmOutcomes :
       agent' = [agent EXCEPT !.pc = "done",
                              !.promise = Fulfilled(IF agent.ok THEN AgentOk(rawText, llm)
                                                    ELSE AgentNotOk(agent.status, rawText, llm))]
  /\ UNCHANGED <<op, arg, ret, stream, home, test>>

NextAgent ==
  AgentCall \/ AgentFetchRejects \/ AgentFetchResponds \/ AgentTextRejects \/ AgentTextArrives

SpecAgent == InitAgent /\ [][NextAgent]_vars

-----------------------------------------------------------------------------
(* handleSSEEvent, called on one parsed event with some handlers *)

InitHandle ==
  /\ op = "none" /\ arg \in HandleArgs /\ ret = Null /\ stream = StreamOff /\ agent = AgentOff
  /\ OthersOff

CallHandleSSEEvent ==
  /\ op = "none"
  /\ op' = "handleSSEEvent"
  /\ ret' = handleSSEEvent(arg.parsed, arg.handlers)
  /\ UNCHANGED <<arg, stream, agent, home, test>>

NextHandle == CallHandleSSEEvent

SpecHandle == InitHandle /\ [][NextHandle]_vars

-----------------------------------------------------------------------------
(* extractJsonFromText, applied to one text *)

InitExtract ==
  /\ op = "none" /\ arg \in ExtractTexts /\ ret = Null /\ stream = StreamOff /\ agent = AgentOff
  /\ OthersOff

CallExtractJsonFromText ==
  /\ op = "none"
  /\ op' = "extractJsonFromText"
  /\ ret' = extractJsonFromText(arg)
  /\ UNCHANGED <<arg, stream, agent, home, test>>

NextExtract == CallExtractJsonFromText

SpecExtract == InitExtract /\ [][NextExtract]_vars

-----------------------------------------------------------------------------
(* The Home page: its state, handleProcess from await to await, the handlers
   of the list and detail views *)

KValidationResults == <<"v", "a", "l", "i", "d", "a", "t", "i", "o", "n", "_", "r", "e", "s", "u", "l", "t", "s">>
KExtractionResults == <<"e", "x", "t", "r", "a", "c", "t", "i", "o", "n", "_", "r", "e", "s", "u", "l", "t", "s">>

\* runs of handleProcess, ticks of the clock between two readings of it, and
\* the ids that the last 8 digits of the millisecond clock can form (10^8 in
\* the program)
MaxRuns == 2
MaxTick == 2
IdSpace == 3

FileNames == {"f1"}

NoteVals == {Str(<<>>), Str(<<"n">>)}

\* what uploadFiles resolves with: success with the asset ids found, or one of
\* its failures with its error text
UploadResults ==
  {[success |-> TRUE, asset_ids |-> a, error |-> Undef] : a \in {<<>>, <<"a1">>}}
    \cup {[success |-> FALSE, asset_ids |-> <<>>, error |-> e] :
            e \in {Str(<<>>), Str(Lit("VITE_LYZR_API_KEY not configured in environment"))}}

\* what the dynamic import of the agent module rejects with
ImportErrors == {[isError |-> TRUE, message |-> Str(Lit("Failed to fetch dynamically imported module"))]}

\* results the agent may send back
WireResults ==
  { Obj((KValidationResults :> Obj(<<"v">> :> Num(1))) @@ (KExtractionResults :> Obj(<<"e">> :> Num(2)))),
    Obj((KValidationResults :> Obj(<<"v">> :> Num(1))) @@ (KExtractionResults :> Null)),
    Obj(KExtractionResults :> EmptyObj) }

\* what callAIAgent resolves with
HomeResponses ==
  {AgentCaught(e) : e \in ThrownValues}
    \cup {AgentOk(<<>>, Return(Obj((KStatus :> StatusSuccess) @@ (KResult :> r)))) : r \in WireResults}
    \cup {AgentOk(<<>>, Return(v)) :
            v \in {Obj(KResult :> Null), Obj((KSuccess :> Bool(FALSE)) @@ (KError :> Num(7)))}}
    \cup {AgentNotOk(500, <<>>, Return(Obj((KError :> Str(<<>>)) @@ (KMessage :> Str(<<"m", "1">>)))))}

\* the state after the first render
HomeMounted ==
  [pc |-> "idle", view |-> "list", verifications |-> <<>>, selectedId |-> Null, files |-> {},
   isProcessing |-> FALSE, processingStep |-> 0, isModalOpen |-> FALSE, error |-> Null,
   now |-> 0, runs |-> 0, uploadResult |-> Null, response |-> Null]

\* `WP-${new Date().getTime().toString().slice(-8)}`; now holds the last 8
\* digits of the clock
WPId(now) == [wp |-> now]

\* the clock d ticks later, as far as its last 8 digits go
Later(now, d) == (now + d) % IdSpace

\* selectedId ? verifications.find(v => v.id === selectedId) : null
Found(vs, id, i) == IF i = 0 THEN Undef ELSE vs[i]

FirstWith(vs, id) ==
  IF \E i \in DOMAIN vs : vs[i].id = id
    THEN CHOOSE i \in DOMAIN vs : vs[i].id = id /\ \A j \in 1..(i - 1) : vs[j].id # id
    ELSE 0

selectedVerification(h) ==
  IF h.selectedId = Null THEN Null ELSE Found(h.verifications, h.selectedId, FirstWith(h.verifications, h.selectedId))

\* handleProcess up to its first await, and the onClose() of the button
ProcessStarted(h) ==
  [h EXCEPT !.error = Null, !.isProcessing = TRUE, !.processingStep = 0, !.pc = "upload",
            !.isModalOpen = FALSE, !.runs = @ + 1, !.uploadResult = Null]

\* catch (err): err instanceof Error ? err.message : 'Processing error occurred'
CatchMessage(err) == IF err.isError THEN err.message ELSE Str(Lit("Processing error occurred"))

Caught(h, err) ==
  [h EXCEPT !.error = CatchMessage(err), !.isProcessing = FALSE, !.pc = "idle", !.response = Null]

ErrorOf(message) == [isError |-> TRUE, message |-> message]

\* after "await uploadFiles(...)"
AfterUpload(h, uploadResult) ==
  IF ~uploadResult.success \/ Len(uploadResult.asset_ids) = 0
    THEN Caught(h, ErrorOf(OrElse(uploadResult.error, Str(Lit("Failed to upload files")))))
    ELSE [h EXCEPT !.processingStep = 1, !.pc = "pause1", !.uploadResult = uploadResult]

\* after "await Promise.race([...])" won by callAIAgent
AfterAgent(h, response) == [h EXCEPT !.processingStep = 2, !.pc = "pause2", !.response = response]

\* Mutant: the timeout reports its error and leaves the run open.
AfterTimeout_StaysOpen(h) ==
  [h EXCEPT !.error = Str(Lit("Agent request timeout after 60 seconds")), !.pc = "idle"]

\* after "await Promise.race([...])" won by the timeout
AfterTimeout(h) == Caught(h, ErrorOf(Str(Lit("Agent request timeout after 60 seconds"))))

DefaultMetadata == Obj(<<"agent_name">> :> Str(Lit("Wire Verification Manager")))

WireResponse(r) ==
  [status |-> r.status, result |-> r.result, metadata |-> OrElse(r.metadata, DefaultMetadata)]

\* !wireResponse.result?.validation_results || !wireResponse.result?.extraction_results
MissingRequired(result) ==
  ~Truthy(GetProp(result, KValidationResults)) \/ ~Truthy(GetProp(result, KExtractionResults))

NewVerification(now, wire) ==
  [id |-> WPId(now), result |-> wire, timestamp |-> Now, clerkNotes |-> Str(<<>>)]

\* Mutant: the new record is appended where an old one stood.
Added_Replaces(h, nv) ==
  [h EXCEPT !.verifications = <<nv>>, !.selectedId = nv.id, !.view = "detail",
            !.files = {}, !.isProcessing = FALSE, !.pc = "idle", !.response = Null]

\* setVerifications(prev => [newVerification, ...prev]) and the four sets after it
Added(h, nv) ==
  [h EXCEPT !.verifications = <<nv>> \o @, !.selectedId = nv.id, !.view = "detail",
            !.files = {}, !.isProcessing = FALSE, !.pc = "idle", !.response = Null]

\* the else branch: response.error || response.response?.message || '...'
AgentError(h, response) ==
  [h EXCEPT !.error = OrElse(OrElse(response.error, response.response.message),
                             Str(Lit("Agent processing failed"))),
            !.isProcessing = FALSE, !.pc = "idle", !.response = Null]

\* after the second pause, to the end of handleProcess
Completed(h, response) ==
  IF response.success = Bool(TRUE)
    THEN IF MissingRequired(response.response.result)
           THEN Caught(h, ErrorOf(Str(Lit("Invalid response structure from agent"))))
           ELSE Added(h, NewVerification(h.now, WireResponse(response.response)))
    ELSE AgentError(h, response)

handleSelectResult(h, id) == [h EXCEPT !.selectedId = id, !.view = "detail"]

\* Mutant: going back keeps the selection.
handleBackToList_KeepsSelection(h) == [h EXCEPT !.view = "list"]

handleBackToList(h) == [h EXCEPT !.view = "list", !.selectedId = Null]

NotesSet(vs, id, notes) ==
  [i \in DOMAIN vs |-> IF vs[i].id = id THEN [vs[i] EXCEPT !.clerkNotes = notes] ELSE vs[i]]

handleClerkNotesChange(h, notes) ==
  IF h.selectedId # Null
    THEN [h EXCEPT !.verifications = NotesSet(h.verifications, h.selectedId, notes)]
    ELSE h

InitHome ==
  /\ NoCall /\ stream = StreamOff /\ agent = AgentOff /\ test = TestOff
  /\ \E t \in 0..(IdSpace - 1) : home = [HomeMounted EXCEPT !.now = t]

HomeStep(h) == home' = h /\ UNCHANGED <<op, arg, ret, stream, agent, test>>

\* the list view's button, the dialog's close, the file picker, the toast's X
OpenModal == home.pc # "off" /\ home.view = "list" /\ HomeStep([home EXCEPT !.isModalOpen = TRUE])

CloseModal == home.pc # "off" /\ home.isModalOpen /\ HomeStep([home EXCEPT !.isModalOpen = FALSE])

FilesChange ==
  /\ home.pc # "off" /\ home.isModalOpen
  /\ \E fs \in SUBSET FileNames : fs # home.files /\ HomeStep([home EXCEPT !.files = fs])

DismissError == home.pc # "off" /\ home.error # Null /\ HomeStep([home EXCEPT !.error = Null])

\* the Process button: disabled={files.length === 0 || isProcessing}
ProcessClicked ==
  /\ home.pc = "idle" /\ home.isModalOpen /\ home.files # {} /\ ~home.isProcessing
  /\ home.runs < MaxRuns
  /\ HomeStep(ProcessStarted(home))

ImportRejects == home.pc = "upload" /\ \E e \in ImportErrors : HomeStep(Caught(home, e))

UploadSettles == home.pc = "upload" /\ \E u \in UploadResults : HomeStep(AfterUpload(home, u))

\* the 500 ms pause, then timeoutPromise and callAIAgent are started
FirstPauseEnds ==
  /\ home.pc = "pause1"
  /\ \E d \in 1..MaxTick : HomeStep([home EXCEPT !.pc = "race", !.now = Later(@, d)])

AgentAnswers == home.pc = "race" /\ \E r \in HomeResponses : HomeStep(AfterAgent(home, r))

AgentTimesOut == home.pc = "race" /\ HomeStep(AfterTimeout(home))

SecondPauseEnds ==
  /\ home.pc = "pause2"
  /\ \E d \in 1..MaxTick : HomeStep(Completed([home EXCEPT !.now = Later(@, d)], home.response))

\* a row of the list view
SelectResult ==
  /\ home.pc # "off" /\ home.view = "list"
  /\ \E i \in DOMAIN home.verifications : HomeStep(handleSelectResult(home, home.verifications[i].id))

\* the detail view is rendered when selectedVerification is found
DetailShown == home.pc # "off" /\ home.view = "detail" /\ selectedVerification(home) \notin {Null, Undef}

BackToList == DetailShown /\ HomeStep(handleBackToList(home))

ClerkNotesChange ==
  /\ DetailShown
  /\ \E notes \in NoteVals : HomeStep(handleClerkNotesChange(home, notes))

NextHome ==
  \/ OpenModal \/ CloseModal \/ FilesChange \/ DismissError
  \/ ProcessClicked \/ ImportRejects \/ UploadSettles \/ FirstPauseEnds
  \/ AgentAnswers \/ AgentTimesOut \/ SecondPauseEnds
  \/ SelectResult \/ BackToList \/ ClerkNotesChange

SpecHome == InitHome /\ [][NextHome]_vars

\* The awaits of a run come to an end: the upload call settles, the two 500 ms
\* timers fire, and the race is settled by the agent or, at the latest, by the
\* 60 s timer.
FairHome ==
  /\ WF_vars(ImportRejects \/ UploadSettles)
  /\ WF_vars(FirstPauseEnds)
  /\ WF_vars(AgentAnswers \/ AgentTimesOut)
  /\ WF_vars(SecondPauseEnds)

SpecHomeLive == SpecHome /\ FairHome

-----------------------------------------------------------------------------
(* testAgentWithProgress: the promise, the timeout timer, the fetch and the
   read loop over the chunks of the response body *)

KEventType == <<"e", "v", "e", "n", "t", "_", "t", "y", "p", "e">>
KData == <<"d", "a", "t", "a">>
EvTestStarted == Str(<<"t", "e", "s", "t", "_", "s", "t", "a", "r", "t", "e", "d">>)
EvTestProgress == Str(<<"t", "e", "s", "t", "_", "p", "r", "o", "g", "r", "e", "s", "s">>)
EvTestCompleted == Str(<<"t", "e", "s", "t", "_", "c", "o", "m", "p", "l", "e", "t", "e", "d">>)
EvTestError == Str(<<"t", "e", "s", "t", "_", "e", "r", "r", "o", "r">>)

\* lines a response body is made of
TestLines ==
  { <<"d", "a", "t", "a", ":", " ", "{", Q, "e", "v", "e", "n", "t", "_", "t", "y", "p", "e", Q, ":", Q, "t", "e", "s", "t", "_", "s", "t", "a", "r", "t", "e", "d", Q, "}">>,
    <<"d", "a", "t", "a", ":", " ", "{", Q, "e", "v", "e", "n", "t", "_", "t", "y", "p", "e", Q, ":", Q, "t", "e", "s", "t", "_", "c", "o", "m", "p", "l", "e", "t", "e", "d", Q, ",", Q, "d", "a", "t", "a", Q, ":", "{", Q, "s", "u", "c", "c", "e", "s", "s", Q, ":", "t", "r", "u", "e", "}", "}">>,
    <<"d", "a", "t", "a", ":", " ", "{", Q, "e", "v", "e", "n", "t", "_", "t", "y", "p", "e", Q, ":", Q, "t", "e", "s", "t", "_", "e", "r", "r", "o", "r", Q, ",", Q, "d", "a", "t", "a", Q, ":", "{", Q, "e", "r", "r", "o", "r", Q, ":", Q, "e", Q, "}", "}">>,
    <<"d", "a", "t", "a", ":", " ", "o", "o", "p", "s">>,
    <<>> }

\* bodies of one line and of two, with a newline after the last line and
\* without, and the empty body
TestLineSeqs == {<<a>> : a \in TestLines} \cup {<<a, b>> : a \in TestLines, b \in TestLines}

TestBodies ==
  {<<>>} \cup {Join(ls, 1) : ls \in TestLineSeqs} \cup {Join(ls, 1) \o <<"\n">> : ls \in TestLineSeqs}

\* the state at the call: the timer armed, fetch under way, the body still to
\* come
TestStarted(body) ==
  [pc |-> "fetch", body |-> body, rest |-> body, buffer |-> <<>>, finalResult |-> Null,
   handled |-> <<>>, calls |-> <<>>, promise |-> "pending", settles |-> 0,
   timer |-> "armed", aborted |-> FALSE]

\* a callback invoked; settled tells whether the promise had settled by then
Call(t, name) ==
  [t EXCEPT !.calls = Append(@, [name |-> name, settled |-> t.promise # "pending"])]

\* resolve(...) or reject(...): only the first one settles the promise
Settle(t, how) ==
  IF t.promise = "pending" THEN [t EXCEPT !.promise = how, !.settles = @ + 1] ELSE t

\* the timer's callback: controller.abort(); onError?.(error); reject(...)
TimedOut(t) ==
  Settle(Call([t EXCEPT !.timer = "fired", !.aborted = TRUE], "onError"), "rejected")

\* .catch((err) => { clearTimeout(timeoutId); onError?.(error); reject(err) })
Catch(t) ==
  Settle(Call([t EXCEPT !.timer = IF @ = "armed" THEN "cleared" ELSE @, !.pc = "done"],
              "onError"),
         "rejected")

\* event.data.x throws TypeError when event.data is undefined or null
NoData(event) == GetProp(event, KData) \in {Undef, Null}

\* switch (event.event_type); what throws is caught and logged
OnEvent(t, event) ==
  IF event \in {Undef, Null} THEN t
  ELSE IF GetProp(event, KEventType) = EvTestStarted THEN Call(t, "onProgress")
  ELSE IF GetProp(event, KEventType) = EvTestProgress
    THEN IF NoData(event) THEN t ELSE Call(t, "onProgress")
  ELSE IF GetProp(event, KEventType) = EvTestCompleted
    THEN IF NoData(event) THEN t
         ELSE Call([t EXCEPT !.finalResult = [success |-> GetProp(GetProp(event, KData), KSuccess)]],
                   "onComplete")
  ELSE IF GetProp(event, KEventType) = EvTestError
    THEN IF NoData(event) THEN t
         ELSE Call([t EXCEPT !.finalResult = [success |-> Bool(FALSE)]], "onError")
  ELSE t

\* JSON.parse(line.slice(6)) inside the try
OnParsed(t, parsed) == IF parsed.ok THEN OnEvent(t, parsed.val) ELSE t

\* one line of the chunk; handled keeps the data lines that reached JSON.parse
\* (a history the code does not keep)
OnTestLine(t, line) ==
  IF StartsAt(line, 1, DataPrefix)
    THEN OnParsed([t EXCEPT !.handled = Append(@, Sub(line, 7, Len(line)))],
                  JSONParse(Sub(line, 7, Len(line))))
    ELSE t

RECURSIVE OnTestLines(_, _, _)
OnTestLines(t, lines, i) ==
  IF i > Len(lines) THEN t ELSE OnTestLines(OnTestLine(t, lines[i]), lines, i + 1)

\* lines = buffer.split('\n'); buffer = lines.pop() || ''; for (const line of lines)
OnSplit(t, lines) ==
  OnTestLines([t EXCEPT !.buffer = lines[Len(lines)]], Sub(lines, 1, Len(lines) - 1), 1)

\* buffer += decoder.decode(value, { stream: true }) and the loop body
OnChunk(t, value) == OnSplit(t, Split(t.buffer \o value, 1, <<>>))

\* after the loop: clearTimeout; resolve(finalResult) or onError and reject
StreamEnded(t) ==
  IF t.finalResult # Null
    THEN Settle([t EXCEPT !.timer = IF @ = "armed" THEN "cleared" ELSE @, !.pc = "done"], "resolved")
    ELSE Settle(Call([t EXCEPT !.timer = IF @ = "armed" THEN "cleared" ELSE @, !.pc = "done"],
                     "onError"),
                "rejected")

InitTest ==
  /\ NoCall /\ stream = StreamOff /\ agent = AgentOff /\ home = HomeOff
  /\ \E body \in TestBodies : test = TestStarted(body)

TestStep(t) == test' = t /\ UNCHANGED <<op, arg, ret, stream, agent, home>>

\* fetch rejects, or resolves with !response.ok or without a body: the catch
TestFetchFails == test.pc = "fetch" /\ ~test.aborted /\ TestStep(Catch(test))

TestFetchResponds == test.pc = "fetch" /\ ~test.aborted /\ TestStep([test EXCEPT !.pc = "read"])

\* reader.read() gives the next chunk: any non-empty prefix of what is to come
TestChunk ==
  /\ test.pc = "read" /\ ~test.aborted
  /\ \E n \in 1..Len(test.rest) :
       TestStep(OnChunk([test EXCEPT !.rest = Sub(@, n + 1, Len(@))], Sub(test.rest, 1, n)))

\* reader.read() gives done
TestStreamEnds ==
  test.pc = "read" /\ ~test.aborted /\ test.rest = <<>> /\ TestStep(StreamEnded(test))

\* reader.read() rejects
TestStreamFails == test.pc = "read" /\ ~test.aborted /\ TestStep(Catch(test))

\* the timer fires, unless clearTimeout came first
TestTimerFires == test.timer = "armed" /\ test.pc # "off" /\ TestStep(TimedOut(test))

\* the abort makes the pending fetch or read reject
TestAbortRejects == test.pc \in {"fetch", "read"} /\ test.aborted /\ TestStep(Catch(test))

NextTest ==
  \/ TestFetchFails \/ TestFetchResponds \/ TestChunk \/ TestStreamEnds
  \/ TestStreamFails \/ TestTimerFires \/ TestAbortRejects

SpecTest == InitTest /\ [][NextTest]_vars

-----------------------------------------------------------------------------
(* Properties *)

Strategy(name) == Str(Lit(name))

Producing ==
  {Strategy(n) : n \in {"direct", "cleaned", "extracted", "extracted_cleaned",
                        "partial_recovery", "sse_done"}}

\* C1: robustJSONParse returns a ParseResult for every input and never throws;
\* the empty string, null and every value that is no string give success=false
\* with strategy 'none'.
C1_ParseTotal ==
  op = "robustJSONParse" =>
    /\ ~ret.threw
    /\ ret.val.success \in BOOLEAN
    /\ (arg.t # "str" \/ arg.v = <<>>) =>
         ret.val.success = FALSE /\ ret.val.strategy = Strategy("none")

C1_Witness ==
  /\ op = "robustJSONParse" /\ arg = Num(5)
  /\ ~ret.threw /\ ret.val.success = FALSE /\ ret.val.strategy = Strategy("none")

\* C2: every ParseResult returned by robustJSONParse or parseSSEData has its
\* strategy set; success=true implies data is present and a producing strategy;
\* success=false implies raw and error are present and the strategy is 'none' or
\* 'raw_fallback'.
C2_ParseResultShape ==
  (op \in {"robustJSONParse", "parseSSEData"} /\ ~ret.threw) =>
    /\ ret.val.strategy # Undef
    /\ ret.val.success => ret.val.data # Undef /\ ret.val.strategy \in Producing
    /\ ~ret.val.success =>
         /\ ret.val.raw # Undef /\ ret.val.error # Undef
         /\ ret.val.strategy \in {Strategy("none"), Strategy("raw_fallback")}

C2_Witness ==
  /\ op = "parseSSEData" /\ ~ret.threw
  /\ ~ret.val.success /\ ret.val.strategy = Strategy("raw_fallback")
  /\ ret.val.raw = Str(<<"x">>)

\* C3: an input that is valid JSON once trimmed gives success=true, strategy
\* 'direct' and the parsed value as data; no later strategy is reported for it.
C3_ValidJsonIsDirect ==
  (op = "robustJSONParse" /\ arg.t = "str" /\ JSONParse(Trim(arg.v)).ok) =>
    ret = Return(ParseOk(JSONParse(Trim(arg.v)).val, "direct"))

C3_Witness ==
  /\ op = "robustJSONParse" /\ arg.t = "str" /\ arg.v # Trim(arg.v)
  /\ JSONParse(Trim(arg.v)).ok
  /\ JSONParse(cleanJsonString(Trim(arg.v))).ok
  /\ ret.val.strategy = Strategy("direct") /\ ret.val.data.t = "obj"

\* C4: normalizeResponse returns, for every input, a status that is 'success' or
\* 'error' and a result that is an object, never absent or null.
C4_NormalizedShape ==
  op = "normalizeResponse" =>
    /\ ~ret.threw
    /\ ret.val.status \in {StatusSuccess, StatusError}
    /\ ret.val.result.t \in {"obj", "arr"}

\* {result: null} comes back with a null result
C4_NullResult ==
  /\ op = "normalizeResponse" /\ arg = Obj(KResult :> Null)
  /\ ret = Return(Normalized(StatusSuccess, Null, Undef, Undef))

\* C5: callAIAgent never rejects; what it resolves with has a boolean success and
\* a response whose status is 'success' or 'error' and whose result is present;
\* with success=false the response is {status:'error', result:{}} with the
\* message equal to the returned error.
C5_AgentResponseShape ==
  agent.pc = "done" =>
    /\ agent.promise.state = "fulfilled"
    /\ agent.promise.value.success \in {Bool(TRUE), Bool(FALSE)}
    /\ agent.promise.value.response.status \in {StatusSuccess, StatusError}
    /\ agent.promise.value.response.result # Undef
    /\ agent.promise.value.success = Bool(FALSE) =>
         agent.promise.value.response
           = Normalized(StatusError, EmptyObj, agent.promise.value.error, Undef)

C5_Witness ==
  /\ agent.pc = "done" /\ agent.status = 500
  /\ agent.promise.state = "fulfilled"
  /\ agent.promise.value.success = Bool(FALSE)
  /\ agent.promise.value.error = Str(<<"d", "e", "n", "i", "e", "d">>)
  /\ agent.promise.value.response.message = Str(<<"d", "e", "n", "i", "e", "d">>)

\* C6: parseSSEEvent and parseSSEStream never raise, whatever the declared type,
\* the data and the request id, also when the data parses to a JSON value that is
\* no object.
C6_SSENeverRaises ==
  /\ op = "parseSSEEvent" => ~ret.threw
  /\ ~stream.threw

\* a frame whose data is the JSON number 5 makes parseSSEStream throw
C6_PrimitiveFrameThrows ==
  /\ stream.pc = "done" /\ stream.threw
  /\ stream.raw = <<"d", "a", "t", "a", ":", " ", "5">>

\* the canonical response c as the normalizer would give it back
AsNormalized(c) ==
  Normalized(Get(c, KStatus), Get(c, KResult), Get(c, KMessage), Get(c, KMetadata))

\* C7: for every canonical response c,
\* normalizeResponse(robustJSONParse(JSON.stringify(c)).data) equals c.
C7_RoundTrip ==
  op = "roundTrip" => ret = Return(AsNormalized(arg))

C7_Witness ==
  /\ op = "roundTrip"
  /\ Get(arg, KStatus) = StatusError
  /\ Get(arg, KMessage) = Str(<<"a", Q, BS, "\n">>)
  /\ Get(arg, KMetadata) # Undef
  /\ Get(arg, KResult) # EmptyObj
  /\ ret = Return(AsNormalized(arg))

\* C8: an object with both a status and a result key comes back with status
\* 'error' iff its status is exactly 'error' (else 'success'), its result
\* unchanged unless falsy (then the empty mapping), its message and metadata
\* unchanged.
C8_CanonicalPassThrough ==
  (op = "normalizeResponse" /\ HasKey(arg, KStatus) /\ HasKey(arg, KResult)) =>
    /\ ret.val.status = (IF arg.v[KStatus] = StatusError THEN StatusError ELSE StatusSuccess)
    /\ ret.val.result = (IF Truthy(arg.v[KResult]) THEN arg.v[KResult] ELSE EmptyObj)
    /\ ret.val.message = Get(arg, KMessage)
    /\ ret.val.metadata = Get(arg, KMetadata)

C8_Witness ==
  /\ op = "normalizeResponse" /\ HasKey(arg, KStatus) /\ HasKey(arg, KResult)
  /\ arg.v[KStatus] = StatusError
  /\ arg.v[KResult] = Num(0)
  /\ ret.val.result = EmptyObj /\ ret.val.status = StatusError

\* the keys of an object other than status, message and metadata
Remaining(x) == [k \in DOMAIN x.v \ {KStatus, KMessage, KMetadata} |-> x.v[k]]

C10_ScalarsWrapped ==
  op = "normalizeResponse" =>
    /\ arg.t = "str" =>
         ret.val = Normalized(StatusSuccess, Obj(KText :> arg), arg, Undef)
    /\ arg.t \in {"num", "bool"} =>
         ret.val = Normalized(StatusSuccess, Obj(KValue :> arg), Str(StringOf(arg)), Undef)

\* the number 0 comes back as the empty-response error
C10_ZeroIsEmptyResponse ==
  /\ op = "normalizeResponse" /\ arg = Num(0)
  /\ ret = Return(Normalized(StatusError, EmptyObj, Str(Lit("Empty response from agent")), Undef))

\* s.lastIndexOf(c) among the first i characters, 0 when there is none
RECURSIVE LastIndexOf(_, _, _)
LastIndexOf(s, c, i) ==
  IF i = 0 THEN 0 ELSE IF s[i] = c THEN i ELSE LastIndexOf(s, c, i - 1)

\* text free of braces and code fences
IsProse(s) == (\A i \in 1..Len(s) : s[i] \notin {"{", "}"}) /\ IndexFrom(s, Fence, 1) = 0

\* s is prose, the text of a JSON object from a to b, prose, with some prose
\* that is not blank on one side at least
IsEmbeddedAt(s, a, b) ==
  /\ a > 0 /\ b > a
  /\ JSONParse(Sub(s, a, b)).ok
  /\ IsProse(Sub(s, 1, a - 1)) /\ IsProse(Sub(s, b + 1, Len(s)))
  /\ Trim(Sub(s, 1, a - 1)) # <<>> \/ Trim(Sub(s, b + 1, Len(s))) # <<>>

ExtractedAt(s, a, b) == Return(ParseOk(JSONParse(Sub(s, a, b)).val, "extracted"))

\* C11: for every input prose + J + prose, J the text of a well-formed JSON
\* object, the prose free of braces and code fences and not empty on one side
\* at least, robustJSONParse returns success=true, strategy 'extracted' and the
\* value of J as data.
C11_ExtractionCorrect ==
  (op = "robustJSONParse" /\ arg.t = "str"
     /\ IsEmbeddedAt(arg.v, IndexFrom(arg.v, <<"{">>, 1), LastIndexOf(arg.v, "}", Len(arg.v)))) =>
    ret = ExtractedAt(arg.v, IndexFrom(arg.v, <<"{">>, 1), LastIndexOf(arg.v, "}", Len(arg.v)))

\* a brace inside a string of J ends the span early: the data is recovered key
\* by key and is not the value of J
C11_BraceInString ==
  /\ op = "robustJSONParse"
  /\ arg = Str(<<"x", " ", "{", Q, "a", Q, ":", "{", Q, "b", Q, ":", Q, "}", Q, "}", ",", Q, "c", Q, ":", "1", "}">>)
  /\ ret.val.strategy = Strategy("partial_recovery")
  /\ ret.val.data.v[<<"a">>] = Str(<<"{", Q, "b", Q, ":", Q, "}">>)

\* the comma at i directly precedes, across whitespace, a closing brace or bracket
IsTrailingComma(s, i, j) == s[i] = "," /\ j <= Len(s) /\ s[j] \in {"}", "]"}

\* s from i on without its trailing commas
RECURSIVE Repaired(_, _)
Repaired(s, i) ==
  IF i > Len(s) THEN <<>>
  ELSE IF IsTrailingComma(s, i, SkipClass(s, i + 1, JsWhite)) THEN Repaired(s, i + 1)
  ELSE <<s[i]>> \o Repaired(s, i + 1)

\* C12: an input that is not valid JSON as given and becomes valid JSON once the
\* commas directly preceding, across whitespace, a closing brace or bracket are
\* removed gives success=true, strategy 'cleaned' and the value of the repaired
\* text as data.
C12_TrailingCommas ==
  (op = "robustJSONParse" /\ arg.t = "str"
     /\ ~JSONParse(arg.v).ok /\ JSONParse(Repaired(arg.v, 1)).ok) =>
    ret = Return(ParseOk(JSONParse(Repaired(arg.v, 1)).val, "cleaned"))

C12_Witness ==
  /\ op = "robustJSONParse"
  /\ arg = Str(<<"{", Q, "a", Q, ":", "[", "1", ",", " ", "]", ",", "}">>)
  /\ ret = Return(ParseOk(Obj(<<"a">> :> Arr(<<Num(1)>>)), "cleaned"))

\* the extraction strategy gives nothing: no text extracted, or one that parses
\* neither as it is nor cleaned
ExtractFails(x) ==
  \/ ~x.found
  \/ x.text = <<>>
  \/ ~JSONParse(x.text).ok /\ ~JSONParse(cleanJsonString(x.text)).ok

\* direct, cleaned and extracted parsing all fail on the trimmed text t
EarlierFail(t) ==
  /\ ~JSONParse(t).ok
  /\ ~JSONParse(cleanJsonString(t)).ok
  /\ ExtractFails(extractJsonFromText(t))

\* a pair "key": value at i, the value a JSON string, number, true, false or null
PairValue(r) == r.ok /\ r.val.t \in {"str", "num", "bool", "null"}

PairColon(s, c) == c <= Len(s) /\ s[c] = ":" /\ PairValue(ParseValue(s, c + 1))

PairKey(s, i, kq) == kq > i + 1 /\ PairColon(s, SkipClass(s, kq + 1, JsonWS))

PairAt(s, i) == s[i] = Q /\ PairKey(s, i, IndexFrom(s, <<Q>>, i + 1))

HasPair(s) == \E i \in 1..Len(s) : PairAt(s, i)

\* C13: an input on which direct, cleaned and extracted parsing all fail and
\* which holds a pair "key": value gives success=true with strategy
\* 'partial_recovery', and partial_recovery is reported only with at least one
\* key recovered.
C13_PartialRecovery ==
  (op = "robustJSONParse" /\ arg.t = "str") =>
    /\ (EarlierFail(Trim(arg.v)) /\ HasPair(Trim(arg.v))) =>
         ret.val.success /\ ret.val.strategy = Strategy("partial_recovery")
    /\ ret.val.strategy = Strategy("partial_recovery") => DOMAIN ret.val.data.v # {}

\* the pair "a": -1 is not recovered
C13_NegativeNumberLost ==
  /\ op = "robustJSONParse"
  /\ arg = Str(<<"{", Q, "a", Q, ":", " ", "-", "1">>)
  /\ ~ret.val.success /\ ret.val.strategy = Strategy("raw_fallback")

\* partial recovery gives nothing: no pair matched, or no key set
PartialFails(x) == ~x.found \/ DOMAIN x.obj.v = {}

\* text with no brace, bracket, quote or code fence
IsPlainProse(t) == \A i \in 1..Len(t) : t[i] \notin {"{", "}", "[", "]", Q, TICK}

FellBack(t) ==
  Return(ParseFailed(t, Lit("All parsing strategies failed"), "raw_fallback"))

\* C14: a non-empty input string on which direct, cleaned, extracted and
\* partial-recovery parsing all fail gives success=false, strategy
\* 'raw_fallback', the trimmed input as raw and a non-empty error; plain prose
\* that is no JSON, as given or cleaned, is such an input.
C14_RawFallback ==
  (op = "robustJSONParse" /\ arg.t = "str" /\ arg.v # <<>>) =>
    /\ (EarlierFail(Trim(arg.v)) /\ PartialFails(partialRecovery(Trim(arg.v)))) =>
         ret = FellBack(Trim(arg.v)) /\ ret.val.error.v # <<>>
    /\ (IsPlainProse(arg.v) /\ ~JSONParse(arg.v).ok
          /\ ~JSONParse(cleanJsonString(arg.v)).ok) =>
         ret = FellBack(Trim(arg.v))

C14_Witness ==
  /\ op = "robustJSONParse" /\ arg = Str(<<" ", "x", " ">>)
  /\ ~ret.val.success /\ ret.val.strategy = Strategy("raw_fallback")
  /\ ret.val.raw = Str(<<"x">>)

\* the synthetic completion event: no parse strategy, no raw text, no error
IsCompletion(e, requestId) ==
  /\ e.success = TRUE /\ e.eventType = EvChatCompleted
  /\ GetProp(e.event, KType) = EvChatCompleted
  /\ GetProp(e.event, KRequestId) = (IF Truthy(requestId) THEN requestId ELSE Str(<<>>))
  /\ e.parseStrategy = Undef /\ e.raw = Undef /\ e.error = Undef

\* the step pushes one event for a frame whose data lines are lines
PushesFor(lines) ==
  /\ stream.currentData = lines
  /\ Len(stream'.events) = Len(stream.events) + 1

\* C15: parseSSEEvent called with data exactly '[DONE]' returns, for every
\* declared type, success=true, eventType 'chat_completed' and an event of type
\* 'chat_completed' carrying the request id given (or ''), the JSON parser not
\* being called (no parse strategy is reported); a stream frame whose data is
\* the single line 'data: [DONE]' yields exactly this event.
C15_DoneMarker ==
  /\ [](op = "parseSSEEvent" /\ arg.data = Str(DoneMarker) =>
          ~ret.threw /\ IsCompletion(ret.val, arg.requestId))
  /\ [][PushesFor(<<DoneMarker>>) =>
          IsCompletion(stream'.events[Len(stream'.events)], stream.requestId)]_vars

C15_Witness ==
  /\ stream.pc = "done" /\ ~stream.threw
  /\ stream.lines = <<EventPrefix \o <<"t", "o", "o", "l", "_", "e", "r", "r", "o", "r">>,
                      DataPrefix \o DoneMarker>>
  /\ stream.requestId = Str(<<"r", "1">>)
  /\ Len(stream.events) = 1 /\ IsCompletion(stream.events[1], stream.requestId)

\* Frames of a text, read off its lines: a blank line is one that trims to
\* nothing, a data line one that starts with 'data: ', a frame a maximal run of
\* lines that are not blank.
IsBlank(l) == Trim(l) = <<>>

DataIdx(lines) == {i \in 1..Len(lines) : ~IsBlank(lines[i]) /\ StartsAt(lines[i], 1, DataPrefix)}

SameFrame(lines, i, j) == \A k \in i..j : ~IsBlank(lines[k])

\* the first data line of each frame that has one
FirstData(lines) ==
  {i \in DataIdx(lines) : \A j \in DataIdx(lines) : j < i => ~SameFrame(lines, j, i)}

RECURSIVE Ascending(_)
Ascending(S) ==
  IF S = {} THEN <<>>
  ELSE <<CHOOSE m \in S : \A x \in S : m <= x>>
         \o Ascending(S \ {CHOOSE m \in S : \A x \in S : m <= x})

\* the values of the data lines of the frame from line i on, a newline between
\* one and the next
RECURSIVE FrameJoin(_, _, _)
FrameJoin(lines, i, started) ==
  IF i > Len(lines) \/ IsBlank(lines[i]) THEN <<>>
  ELSE IF StartsAt(lines[i], 1, DataPrefix)
    THEN (IF started THEN <<"\n">> ELSE <<>>) \o Sub(lines[i], 7, Len(lines[i]))
           \o FrameJoin(lines, i + 1, TRUE)
  ELSE FrameJoin(lines, i + 1, started)

\* one joined data string per frame with data, in the order of the text
FrameData(lines, firsts) == [k \in 1..Len(firsts) |-> Str(FrameJoin(lines, firsts[k], FALSE))]

ExpectedData(raw) == FrameData(Split(raw, 1, <<>>), Ascending(FirstData(Split(raw, 1, <<>>))))

\* the calls made are the expected ones, as far as the run went
CallsMatch(st, expected) ==
  /\ Len(st.calls) <= Len(expected)
  /\ \A k \in 1..Len(st.calls) : st.calls[k].data = expected[k]
  /\ ~st.threw => Len(st.calls) = Len(expected)
  /\ Len(st.events) <= Len(st.calls)

\* C16: within one frame the values of the 'data: ' lines are joined in arrival
\* order with one newline between them, the joined string is passed once to
\* parseSSEEvent, and the data lines of one frame give no more than one event.
C16_MultiLineData ==
  stream.pc = "done" => CallsMatch(stream, ExpectedData(stream.raw))

C16_Witness ==
  /\ stream.pc = "done" /\ ~stream.threw
  /\ stream.lines = <<DataPrefix \o <<"{", Q, "a", Q, ":">>, DataPrefix \o <<"1", "}">>>>
  /\ Len(stream.calls) = 1
  /\ stream.calls[1].data = Str(<<"{", Q, "a", Q, ":", "\n", "1", "}">>)
  /\ Len(stream.events) = 1 /\ stream.events[1].success
  /\ stream.events[1].parseStrategy = Strategy("direct")

\* the events returned are the results of the expected calls, in order
EventsMatch(st, expected) ==
  /\ ~st.threw
  /\ Len(st.events) = Len(expected)
  /\ \A k \in 1..Len(st.events) :
       /\ st.calls[k].data = expected[k]
       /\ Return(st.events[k])
            = parseSSEEvent(st.calls[k].eventType, st.calls[k].data, st.requestId)

\* C17: for every raw text parseSSEStream returns a list with exactly one
\* ParsedSSEEvent per frame that has a 'data: ' line, in the order of the frames;
\* a frame without data lines gives no event, and data buffered at the end of
\* the input is flushed as a last event.
C17_FrameAccounting ==
  stream.pc = "done" => EventsMatch(stream, ExpectedData(stream.raw))

\* the first frame throws: no list is returned, the second frame is never read
C17_StreamAborted ==
  /\ stream.pc = "done" /\ stream.threw
  /\ stream.lines = <<DataPrefix \o <<"5">>, <<>>, DataPrefix \o <<"{", Q, "a", Q, ":", "1", "}">>>>
  /\ stream.events = <<>>
  /\ Len(ExpectedData(stream.raw)) = 2


\* The handler the routing table names for a parsed event.
Selected(parsed) ==
  IF ~parsed.success THEN "onParseError"
  ELSE CASE parsed.eventType = EvToolBlocked -> "onToolBlocked"
         [] parsed.eventType = EvToolError -> "onToolError"
         [] parsed.eventType = EvParseError -> "onParseError"
         [] parsed.eventType = EvValidationError -> "onValidationError"
         [] OTHER -> "onSuccess"

\* A successfully parsed event that carries no event
EventAbsent(parsed) == parsed.success /\ parsed.event \in {Undef, Null}

\* what onParseError is given after a failed parse
FailureArgs(parsed) ==
  <<IF parsed.raw = Undef THEN Str(<<>>) ELSE parsed.raw,
    IF parsed.error = Undef THEN Str(Lit("Unknown error")) ELSE parsed.error>>

\* C18: handleSSEEvent returns nothing and invokes at most one handler: the
\* one the routing table selects (onParseError after a failed parse, whatever
\* the event type, with raw or '' and error or 'Unknown error'), and none
\* when that handler is not supplied or the event is absent.
C18_Dispatch ==
  op = "handleSSEEvent" =>
    /\ ~ret.threw
    /\ ret.val = Undef
    /\ Len(ret.invoked) <= 1
    /\ \A i \in DOMAIN ret.invoked : ret.invoked[i].handler = Selected(arg.parsed)
    /\ (ret.invoked # <<>>) <=>
         (Selected(arg.parsed) \in arg.handlers /\ ~EventAbsent(arg.parsed))
    /\ (~arg.parsed.success /\ ret.invoked # <<>>) =>
         ret.invoked[1].args = FailureArgs(arg.parsed)

\* A failed parse whose declared type is tool_error, with every handler
\* supplied and an event at hand, reached onParseError and nothing else.
C18_Witness ==
  /\ op = "handleSSEEvent"
  /\ ~arg.parsed.success
  /\ arg.parsed.eventType = EvToolError
  /\ Truthy(arg.parsed.event)
  /\ arg.handlers = Handlers
  /\ arg.parsed.raw = Undef
  /\ ret.invoked = <<[handler |-> "onParseError",
                      args |-> <<Str(<<>>), arg.parsed.error>>]>>


\* Balanced spans, read off the text without the scanning loop: the depth of
\* s[a..k] is its openers less its closers; s[a..b] is a balanced span when it
\* opens at a, stays at depth 1 or more up to b, and comes back to 0 at b.
CountOf(s, ch, a, k) == Cardinality({i \in a..k : s[i] = ch})

DepthOf(s, o, c, a, k) == CountOf(s, o, a, k) - CountOf(s, c, a, k)

IsSpan(s, o, c, a, b) ==
  /\ s[a] = o
  /\ s[b] = c
  /\ DepthOf(s, o, c, a, b) = 0
  /\ \A k \in a..(b - 1) : DepthOf(s, o, c, a, k) >= 1

SpanFrom(s, o, c, a) == \E b \in a..Len(s) : IsSpan(s, o, c, a, b)

HasBalanced(s, o, c) == \E a \in 1..Len(s) : SpanFrom(s, o, c, a)

\* the first balanced span of the text
IsFirstSpan(s, o, c, a, b) ==
  IsSpan(s, o, c, a, b) /\ \A a2 \in 1..(a - 1) : ~SpanFrom(s, o, c, a2)

ReturnsFirstSpan(s, o, c, r) ==
  /\ r.found
  /\ \E a \in 1..Len(s) : \E b \in a..Len(s) : IsFirstSpan(s, o, c, a, b) /\ r.text = Sub(s, a, b)

NoFence(s) == \A i \in 1..(Len(s) - 2) : ~(s[i] = TICK /\ s[i + 1] = TICK /\ s[i + 2] = TICK)

\* a closer that comes before every opener
StrayCloser(s, o, c) == \E i \in 1..Len(s) : s[i] = c /\ \A j \in 1..(i - 1) : s[j] # o

\* C19: on a text without a code fence, extractJsonFromText returns the first
\* balanced {...} span whenever the text contains one (a stray closing brace
\* before it included), the first balanced [...] span when there is no brace
\* span, and nothing only when the text has no balanced span.
C19_BalancedExtraction ==
  (op = "extractJsonFromText" /\ NoFence(arg)) =>
    IF HasBalanced(arg, "{", "}") THEN ReturnsFirstSpan(arg, "{", "}", ret)
    ELSE IF HasBalanced(arg, "[", "]") THEN ReturnsFirstSpan(arg, "[", "]", ret)
    ELSE ~ret.found

\* A closing brace stands before the first opening brace of a text that has
\* a balanced {...} span, and nothing was extracted.
C19_StrayCloser ==
  /\ op = "extractJsonFromText"
  /\ NoFence(arg)
  /\ StrayCloser(arg, "{", "}")
  /\ HasBalanced(arg, "{", "}")
  /\ ~ret.found


\* The first fenced block of a text, read off the text: the first fence, an
\* optional "json" after it, and the next fence after that.
FenceAt(s, i) == i + 2 <= Len(s) /\ s[i] = TICK /\ s[i + 1] = TICK /\ s[i + 2] = TICK

IsFirstFence(s, i) == FenceAt(s, i) /\ \A j \in 1..(i - 1) : ~FenceAt(s, j)

TagEnd(s, i) ==
  IF i + 6 <= Len(s) /\ Sub(s, i + 3, i + 6) = <<"j", "s", "o", "n">> THEN i + 7 ELSE i + 3

IsBlock(s, i, c) ==
  /\ IsFirstFence(s, i)
  /\ c >= TagEnd(s, i)
  /\ FenceAt(s, c)
  /\ \A j \in TagEnd(s, i)..(c - 1) : ~FenceAt(s, j)

HasBlock(s) == \E i \in 1..Len(s) : \E c \in i..Len(s) : IsBlock(s, i, c)

ReturnsBlock(s, r) ==
  /\ r.found
  /\ \E i \in 1..Len(s) : \E c \in i..Len(s) :
       IsBlock(s, i, c) /\ r.text = Trim(Sub(s, TagEnd(s, i), c - 1))

\* What the depth count finds: the first closer that brings the running depth
\* of the text back to 0, and the opener met at depth 0 before it.
IsFound(s, o, c, a, b) ==
  /\ a < b
  /\ s[a] = o
  /\ DepthOf(s, o, c, 1, a - 1) = 0
  /\ s[b] = c
  /\ DepthOf(s, o, c, 1, b) = 0
  /\ \A k \in 1..(b - 1) : ~(s[k] = c /\ DepthOf(s, o, c, 1, k) = 0)

Finds(s, o, c) == \E a \in 1..Len(s) : \E b \in a..Len(s) : IsFound(s, o, c, a, b)

ReturnsFound(s, o, c, r) ==
  /\ r.found
  /\ \E a \in 1..Len(s) : \E b \in a..Len(s) : IsFound(s, o, c, a, b) /\ r.text = Sub(s, a, b)

ArrayOfObjects == <<"h", "e", "r", "e", ":", " ", "[", "{", Q, "a", Q, ":", "1", "}", ",", "{", Q, "b", Q, ":", "2", "}", "]", " ", "e", "n", "d">>

\* C20: extractJsonFromText returns the content of the first fenced block
\* whenever the text has one, whatever that content is and whatever braces
\* and brackets the text holds; without a fenced block it returns the {...}
\* span its scan finds; only when that scan finds none, the [...] span; so an
\* array of objects embedded in prose yields its first object.
C20_SourcePriority ==
  op = "extractJsonFromText" =>
    /\ IF HasBlock(arg) THEN ReturnsBlock(arg, ret)
       ELSE IF Finds(arg, "{", "}") THEN ReturnsFound(arg, "{", "}", ret)
       ELSE IF Finds(arg, "[", "]") THEN ReturnsFound(arg, "[", "]", ret)
       ELSE ~ret.found
    /\ arg = ArrayOfObjects => ret.text = <<"{", Q, "a", Q, ":", "1", "}">>

\* From prose around an array of two objects, the first object was extracted.
C20_Witness ==
  /\ op = "extractJsonFromText"
  /\ arg = ArrayOfObjects
  /\ ~HasBlock(arg)
  /\ Finds(arg, "[", "]")
  /\ ret = [found |-> TRUE, text |-> <<"{", Q, "a", Q, ":", "1", "}">>]


\* The declared type of a frame, read off its lines: the value of the last
\* 'event: ' line of the frame, trimmed, and 'message' when there is none or it
\* is empty.
IsEventLine(l) == ~IsBlank(l) /\ StartsAt(l, 1, EventPrefix)

InFrameOf(lines, i, f) == IF i <= f THEN SameFrame(lines, i, f) ELSE SameFrame(lines, f, i)

EventIdx(lines, f) == {i \in 1..Len(lines) : IsEventLine(lines[i]) /\ InFrameOf(lines, i, f)}

TypeOfLine(l) == IF Trim(Sub(l, 8, Len(l))) = <<>> THEN EvMessage ELSE Str(Trim(Sub(l, 8, Len(l))))

LastOf(S) == CHOOSE m \in S : \A x \in S : x <= m

FrameType(lines, f) ==
  IF EventIdx(lines, f) = {} THEN EvMessage ELSE TypeOfLine(lines[LastOf(EventIdx(lines, f))])

FrameTypes(lines, firsts) == [k \in 1..Len(firsts) |-> FrameType(lines, firsts[k])]

ExpectedTypes(raw) == FrameTypes(Split(raw, 1, <<>>), Ascending(FirstData(Split(raw, 1, <<>>))))

TypesMatch(st, expected) ==
  /\ Len(st.calls) <= Len(expected)
  /\ \A k \in 1..Len(st.calls) : st.calls[k].eventType = expected[k]

\* the step reads the line of the stream that is at hand
ReadsLine == stream.pc = "loop" /\ stream.i <= Len(stream.lines) /\ stream'.i = stream.i + 1

\* IDLE: no declared type and no data buffered
Idle(st) == st.currentEventType = Null /\ st.currentData = <<>>

\* C21: the type handed to parseSSEEvent for a frame is the value of the last
\* 'event: ' line of that frame, 'message' when the frame has none or an empty
\* one; an 'event: ' line makes no call and keeps the data buffered; a blank
\* line leaves neither type nor data behind, so no type reaches a later frame.
C21_FrameMachine ==
  /\ [](stream.pc \in {"loop", "done"} => TypesMatch(stream, ExpectedTypes(stream.raw)))
  /\ [][(ReadsLine /\ IsEventLine(stream.lines[stream.i])) =>
          /\ stream'.calls = stream.calls /\ stream'.events = stream.events
          /\ stream'.currentData = stream.currentData
          /\ stream'.currentEventType = Str(Trim(Sub(stream.lines[stream.i], 8, Len(stream.lines[stream.i]))))]_vars
  /\ [][(ReadsLine /\ IsBlank(stream.lines[stream.i])) => (stream'.threw \/ Idle(stream'))]_vars

\* An 'event: ' line after the data line of the same frame gave the frame its
\* type, and the frame was parsed once.
C21_Witness ==
  /\ stream.pc = "done" /\ ~stream.threw
  /\ stream.lines = <<EventPrefix \o <<"t", "o", "o", "l", "_", "e", "r", "r", "o", "r">>,
                      DataPrefix \o <<"{", Q, "a", Q, ":", "1", "}">>,
                      EventPrefix \o <<"x", " ">>>>
  /\ Len(stream.calls) = 1 /\ stream.calls[1].eventType = Str(<<"x">>)
  /\ Len(stream.events) = 1 /\ stream.events[1].eventType = Str(<<"x">>)


\* The payload of a frame: what robustJSONParse makes of its data.
PayloadOf(data) == robustJSONParse(data).val

\* A field of the payload that holds a value (not missing, not empty, not 0,
\* not null) is kept; otherwise the fallback is what the event holds.
KeptOr(payload, event, k, fallback) ==
  GetProp(event, k) = (IF Truthy(GetProp(payload, k)) THEN GetProp(payload, k) ELSE fallback)

BackFilled(payload, r, eventType, requestId) ==
  /\ r.event.t = "obj"
  /\ KeptOr(payload, r.event, KType, eventType)
  /\ KeptOr(payload, r.event, KRequestId,
            IF Truthy(requestId) THEN requestId ELSE GetProp(payload, KRequestId))
  /\ KeptOr(payload, r.event, KTimestamp, Now)
  /\ r.eventType = GetProp(r.event, KType)
  /\ DOMAIN r.event.v \subseteq DOMAIN payload.v \cup {KType, KRequestId, KTimestamp}
  /\ \A k \in DOMAIN payload.v \ {KType, KRequestId, KTimestamp} : r.event.v[k] = payload.v[k]

IsObjectPayload(p) == p.success /\ p.data.t = "obj"

RawOr(raw, data) == IF raw = Str(<<>>) THEN data ELSE raw

\* C23: whenever robustJSONParse fails on a frame's data (other than
\* '[DONE]'), parseSSEEvent returns success=false, eventType 'parse_error'
\* whatever the declared type, no event, the parser's raw text (or the data),
\* the parser's message and the parser's strategy.
C23_FailedParse ==
  (op = "parseSSEEvent" /\ arg.data # Str(DoneMarker) /\ ~PayloadOf(arg.data).success) =>
    /\ ~ret.threw
    /\ PayloadOf(arg.data).error.t = "str" /\ PayloadOf(arg.data).error.v # <<>>
    /\ ret.val = [success |-> FALSE, event |-> Undef, eventType |-> EvParseError,
                  raw |-> RawOr(PayloadOf(arg.data).raw, arg.data),
                  error |-> PayloadOf(arg.data).error,
                  parseStrategy |-> PayloadOf(arg.data).strategy]

\* Data that is no JSON, declared as tool_error, came back as a parse_error
\* with the raw text and the raw_fallback strategy.
C23_Witness ==
  /\ op = "parseSSEEvent"
  /\ arg.eventType = EvToolError
  /\ arg.data = Str(<<"n", "o", "t", " ", "j", "s", "o", "n">>)
  /\ ~ret.val.success /\ ret.val.eventType = EvParseError /\ ret.val.event = Undef
  /\ ret.val.raw = arg.data
  /\ ret.val.error = Str(Lit("All parsing strategies failed"))
  /\ ret.val.parseStrategy = Strategy("raw_fallback")


\* C24: for every data other than '[DONE]', parseSSEEvent reports success
\* exactly when robustJSONParse does; valid JSON for null, 0, false or '' is a
\* successful event, not a parse_error.
C24_AgreesWithParser ==
  (op = "parseSSEEvent" /\ arg.data # Str(DoneMarker)) =>
    ~ret.threw /\ ret.val.success = PayloadOf(arg.data).success

\* The data 'null' parses directly, and the frame is reported as a parse_error
\* with the default message.
C24_NullIsParseError ==
  /\ op = "parseSSEEvent"
  /\ arg.data = Str(<<"n", "u", "l", "l">>)
  /\ PayloadOf(arg.data) = ParseOk(Null, "direct")
  /\ ~ret.threw /\ ~ret.val.success
  /\ ret.val.eventType = EvParseError
  /\ ret.val.raw = arg.data
  /\ ret.val.error = Str(Lit("Failed to parse SSE data"))
  /\ ret.val.parseStrategy = Strategy("direct")


\* the records of the list without their notes
Records(h) == [i \in DOMAIN h.verifications |-> [id |-> h.verifications[i].id,
                                                  result |-> h.verifications[i].result]]

\* the step ends a run of handleProcess without a new record
RunFails ==
  /\ home.isProcessing /\ ~home'.isProcessing
  /\ Len(home'.verifications) = Len(home.verifications)

\* the step puts one new record, without notes, in front of the list
Prepends ==
  /\ home'.verifications # <<>>
  /\ Tail(home'.verifications) = home.verifications
  /\ home'.verifications[1].clerkNotes = Str(<<>>)

\* the run at hand uploaded at least one asset and got a successful answer
\* whose result has validation_results and extraction_results
RunSucceeded(h) ==
  /\ h.pc = "pause2"
  /\ h.uploadResult # Null /\ h.uploadResult.success /\ Len(h.uploadResult.asset_ids) >= 1
  /\ h.response.success = Bool(TRUE)
  /\ HasKey(h.response.response.result, KValidationResults)
  /\ HasKey(h.response.response.result, KExtractionResults)

\* C25: the records of the list change only by handleProcess prepending one
\* new record, and only after an upload with at least one asset id, an answer
\* with success=true and a result holding validation_results and
\* extraction_results; a run that ends otherwise leaves the list, the selected
\* id, the view and the files as they were and sets error to a message.
C25_ListFrame ==
  [][home.pc # "off" =>
       /\ Records(home') # Records(home) => (RunSucceeded(home) /\ Prepends)
       /\ RunFails =>
            /\ home'.verifications = home.verifications
            /\ home'.selectedId = home.selectedId
            /\ home'.view = home.view
            /\ home'.files = home.files
            /\ home'.error # Null /\ Truthy(home'.error)]_vars

\* After one record was stored, a second run timed out: the list still holds
\* that record and the error is the timeout message.
C25_Witness ==
  /\ home.pc = "idle" /\ home.runs = 2 /\ ~home.isProcessing
  /\ Len(home.verifications) = 1
  /\ home.error = Str(Lit("Agent request timeout after 60 seconds"))


\* C26: every run of handleProcess whose upload call settles ends with
\* isProcessing=false, whichever way it ends, and while it runs processingStep
\* is 0, 1 or 2 and never goes back.
C26_ProcessingEnds ==
  /\ (home.pc # "off" /\ home.isProcessing) ~> (~home.isProcessing)
  /\ [][(home.pc # "off" /\ home.isProcessing /\ home'.isProcessing) =>
          home'.processingStep >= home.processingStep]_vars
  /\ [](home.pc # "off" => home.processingStep \in {0, 1, 2})

\* A run was ended by the timeout while waiting for the agent, at step 1.
C26_Witness ==
  /\ home.pc = "idle" /\ home.runs = 1 /\ ~home.isProcessing
  /\ home.processingStep = 1
  /\ home.error = Str(Lit("Agent request timeout after 60 seconds"))


\* C27: in every state of the Home page the detail view has a selected id that
\* is the id of a stored verification, so that selectedVerification is found;
\* a step back to the list view (handleBackToList) leaves no selected id.
C27_DetailHasRecord ==
  /\ [](home.pc # "off" /\ home.view = "detail" =>
          /\ home.selectedId # Null
          /\ \E i \in DOMAIN home.verifications : home.verifications[i].id = home.selectedId
          /\ selectedVerification(home) \notin {Null, Undef})
  /\ [][(home.pc # "off" /\ home.view = "detail" /\ home'.view = "list") =>
          home'.selectedId = Null]_vars

\* The older of two stored records was selected from the list.
C27_Witness ==
  /\ home.view = "detail"
  /\ Len(home.verifications) = 2
  /\ home.verifications[1].id # home.verifications[2].id
  /\ home.selectedId = home.verifications[2].id


\* the ids of the stored verifications are pairwise distinct
DistinctIds(vs) == \A i, j \in DOMAIN vs : vs[i].id = vs[j].id => i = j

\* the step edits notes: the list keeps its length and is not what it was
EditsNotes ==
  /\ Len(home'.verifications) = Len(home.verifications)
  /\ home'.verifications # home.verifications

\* the places of the list that the step changed
ChangedAt == {i \in DOMAIN home.verifications : home'.verifications[i] # home.verifications[i]}

\* C28: handleClerkNotesChange changes the clerkNotes of exactly one stored
\* verification, the one shown in the detail view, and nothing else; the ids
\* made by handleProcess are pairwise distinct.
C28_NotesFrame ==
  /\ [](home.pc # "off" => DistinctIds(home.verifications))
  /\ [][(home.pc # "off" /\ EditsNotes) =>
          /\ ChangedAt = {FirstWith(home.verifications, home.selectedId)}
          /\ \A i \in ChangedAt :
               home'.verifications[i] = [home.verifications[i] EXCEPT !.clerkNotes = home'.verifications[i].clerkNotes]
          /\ \A f \in DOMAIN home \ {"verifications"} : home'[f] = home[f]]_vars

\* Two stored verifications carry the same id, and one edit of the notes has
\* changed both.
C28_DuplicateIds ==
  /\ home.pc # "off" /\ home.view = "detail"
  /\ Len(home.verifications) = 2
  /\ home.verifications[1].id = home.verifications[2].id
  /\ home.verifications[1].clerkNotes = Str(<<"n">>)
  /\ home.verifications[2].clerkNotes = Str(<<"n">>)

\* the payloads of the 'data: ' lines among lines, in order
RECURSIVE DataPayloads(_, _)
DataPayloads(lines, i) ==
  IF i > Len(lines) THEN <<>>
  ELSE (IF StartsAt(lines[i], 1, DataPrefix) THEN <<Sub(lines[i], 7, Len(lines[i]))>> ELSE <<>>)
         \o DataPayloads(lines, i + 1)

\* the part of the body that the chunks read so far have delivered
Delivered == Sub(test.body, 1, Len(test.body) - Len(test.rest))

\* C29: the events handled by testAgentWithProgress are exactly the 'data: '
\* lines of the whole response body, once each and in order, however the body is
\* cut into chunks, the last line included when no newline ends it.
C29_AllDataLinesHandled ==
  (test.pc \in {"read", "done"} /\ test.rest = <<>>) =>
    test.handled = DataPayloads(Split(test.body, 1, <<>>), 1)

\* What the read loop does keep, whatever the chunks: the lines that a newline
\* ends are handled once each and in order, and the text after the last newline
\* waits in the buffer.
C29_EndedLinesHandled ==
  test.pc \in {"read", "done"} =>
    /\ test.handled = DataPayloads(Sub(Split(Delivered, 1, <<>>), 1, Len(Split(Delivered, 1, <<>>)) - 1), 1)
    /\ test.buffer = Split(Delivered, 1, <<>>)[Len(Split(Delivered, 1, <<>>))]

\* The body is one test_completed line with no newline after it: the stream has
\* ended, the line was never handled, and the promise is rejected.
C29_LastLineLost ==
  /\ test.pc = "done" /\ test.rest = <<>> /\ test.timer = "cleared"
  /\ test.body # <<>> /\ StartsAt(test.body, 1, DataPrefix)
  /\ JSONParse(Sub(test.body, 7, Len(test.body))).ok
  /\ GetProp(JSONParse(Sub(test.body, 7, Len(test.body))).val, KEventType) = EvTestCompleted
  /\ test.buffer = test.body
  /\ test.handled = <<>> /\ test.finalResult = Null
  /\ test.promise = "rejected"
  /\ test.calls = <<[name |-> "onError", settled |-> FALSE]>>

\* the calls of onError made so far
ErrorCalls == {i \in DOMAIN test.calls : test.calls[i].name = "onError"}

\* C30: per call of testAgentWithProgress the promise settles exactly once and
\* onError is invoked at most once, whatever the order of the timer, the
\* rejection caused by its abort, stream errors and test_error events; no
\* callback is invoked after the promise has settled.
C30_SettlesOnceOneError ==
  test.pc # "off" =>
    /\ test.settles <= 1
    /\ test.pc = "done" => test.settles = 1
    /\ Cardinality(ErrorCalls) <= 1
    /\ \A i \in DOMAIN test.calls : ~test.calls[i].settled

\* The part that holds: resolve and reject settle the promise once, and it has
\* settled when the call is over.
C30_SettlesOnce ==
  test.pc # "off" =>
    /\ test.settles <= 1
    /\ test.settles = 1 <=> test.promise # "pending"
    /\ test.pc = "done" => test.settles = 1

\* The timer fired while the body was being read, and the rejection caused by
\* its abort reached the catch: onError was invoked twice, the second time after
\* the promise had been rejected.
C30_ErrorTwice ==
  /\ test.pc = "done" /\ test.timer = "fired" /\ test.aborted
  /\ test.settles = 1 /\ test.promise = "rejected"
  /\ test.calls = <<[name |-> "onError", settled |-> FALSE], [name |-> "onError", settled |-> TRUE]>>

====
